---- MODULE Spec2Model ----
EXTENDS Integers, Sequences, FiniteSets, TLC

(***************************************************************************)
(* Trust and token subsystem of the NEXUS platform:                        *)
(*   - TokenService (user access / password-reset / email-verification     *)
(*     tokens, signed with jsonwebtoken),                                  *)
(*   - the authentication middlewares (authenticate, authenticateToken,    *)
(*     optionalAuth, requireRoles),                                        *)
(*   - the CSRF double-submit check (verifyCsrfToken, csrfProtection),     *)
(*   - the cookie transport (sendAuthResponse, cookieAuthMiddleware),      *)
(*   - service-to-service tokens (generateServiceToken,                    *)
(*     verifyServiceToken), request signatures (signRequest,               *)
(*     verifyRequestSignature) and the service gates                       *)
(*     (serviceAuthMiddleware, requireServicePermission), the client side  *)
(*     (createServiceRequestHeaders) and the service registry,             *)
(*   - the cookie settings (getCookieConfig, setAuthCookies,               *)
(*     clearAuthCookies, sendRefreshResponse, sendLogoutResponse),         *)
(*   - the configuration read from process.env (JWT_SECRET,                *)
(*     getServiceSecret).                                                  *)
(*                                                                         *)
(* Representation.                                                         *)
(*   undefined / null      the empty tuple << >>; a defined value v is     *)
(*                         the one-element tuple <<v>>.                    *)
(*   a JS object           a function from ClaimKeys to such options.      *)
(*   JSON text             a sequence of entries [k, v], the defined keys  *)
(*                         in insertion order (JSON.stringify drops the    *)
(*                         undefined ones).                                *)
(*   HMAC                  an ideal MAC: the pair of key and signed data,  *)
(*                         so two MACs agree iff key and data agree.       *)
(*   a credential string   a record: plain text, a three-part compact JWT  *)
(*                         or a two-part service token.                    *)
(*   a header string       the sequence of its fields between spaces,      *)
(*                         which is what split(' ') returns.               *)
(*   the clock             Date.now() in milliseconds.                     *)
(***************************************************************************)

VARIABLES
  now,      \* Date.now(), milliseconds
  mints,    \* number of tokens made so far (bounds the run)
  tok,      \* the credential string the client currently holds
  origin,   \* how tok came to be: who made it, for which user
  req,      \* the request being handled, with what middlewares attached to it
  last,     \* the most recent call or middleware invocation and its outcome
  jar,      \* what the browser holds: the cookies the responses set and the
            \* CSRF token of the last response body
  proc,     \* the server process: process.env and what loading the modules
            \* evaluated from it
  registry, \* the permissions arrays of the KNOWN_SERVICES entries
  app       \* the frontend application: localStorage, the auth store, the
            \* interval timers and the asynchronous calls awaiting a response

vars == <<now, mints, tok, origin, req, last, jar, proc, registry, app>>

\* ------------------------------------------------------------------ bounds

MaxMints == 1
MaxCsrfLen == 2
MaxTicks == 1
MaxIntervals == 2
MaxIssued == 2
MaxInFlight == 2

\* ------------------------------------------------------- program constants

MsPerSec == 1000
JWT_EXPIRES_IN == 3600
PASSWORD_RESET_EXPIRES_IN == 3600
EMAIL_VERIFICATION_EXPIRES_IN == 86400
SERVICE_TOKEN_TTL == 60

WRONG_SECRET == "wrong-secret"

\* --------------------------------------------------------------- JS values

Undefined == << >>
Def(v) == <<v>>
IsDef(o) == Len(o) = 1
Val(o) == o[1]

\* The result of a call that may throw.
Returned(v) == [threw |-> FALSE, value |-> v]
Thrown == [threw |-> TRUE, value |-> FALSE]

\* Array.prototype.includes and Array.prototype.some over string arrays.
Includes(arr, x) == \E i \in 1..Len(arr) : arr[i] = x
SomeIncluded(arr, other) == \E i \in 1..Len(arr) : Includes(other, arr[i])

\* ------------------------------------------------------------- the process

\* process.env: each variable is undefined or a string.
Environment(nodeEnv, jwtSecret, serviceSecret, cookieDomain, cookieSecure) ==
  [NODE_ENV |-> nodeEnv, JWT_SECRET |-> jwtSecret, SERVICE_SECRET |-> serviceSecret,
   COOKIE_DOMAIN |-> cookieDomain, COOKIE_SECURE |-> cookieSecure,
   ACCESS_TOKEN_COOKIE_NAME |-> << >>, REFRESH_TOKEN_COOKIE_NAME |-> << >>,
   CSRF_TOKEN_COOKIE_NAME |-> << >>]
EnvTruthy(o) == IsDef(o) /\ Val(o) # ""

DEFAULT_JWT_SECRET == "your-super-secret-jwt-key-change-this-in-production"
DEV_SERVICE_SECRET == "dev-service-secret-do-not-use-in-production"
SERVICE_SECRET == "service-secret"

\* const JWT_SECRET = process.env.JWT_SECRET || '<default>', evaluated when the
\* module loads. Nothing in it looks at NODE_ENV and nothing in it throws.
LoadJwtSecret(e) ==
  IF EnvTruthy(e.JWT_SECRET) THEN Val(e.JWT_SECRET) ELSE DEFAULT_JWT_SECRET

\* A process: its environment, whether the modules have been loaded, and the
\* module constant JWT_SECRET as the load evaluated it.
Process(e, loaded) ==
  [env |-> e, loaded |-> loaded,
   JWT_SECRET |-> IF loaded THEN LoadJwtSecret(e) ELSE ""]

\* The process the request-handling behaviours run in: both secrets set,
\* modules loaded (jest.setup sets NODE_ENV to 'test').
ConfiguredEnvironment ==
  Environment(Def("test"), Def("jwt-secret"), Def(SERVICE_SECRET), Undefined, Undefined)
ConfiguredProcess == Process(ConfiguredEnvironment, TRUE)

\* The module constant, as loaded.
JWT_SECRET == proc.JWT_SECRET

\* ------------------------------------------------------ credential strings

\* A signature string: the MAC it encodes and its encoded length. The base64url
\* form of an HMAC-SHA256 digest has 43 characters.
HMAC_BASE64URL_LEN == 43
NoSig == [key |-> "", data |-> << >>, len |-> 0]
Hmac(secret, data) == [key |-> secret, data |-> data, len |-> HMAC_BASE64URL_LEN]

Word(s) == [kind |-> "text", text |-> s, claims |-> << >>, sig |-> NoSig]
EmptyString == Word("")

\* A non-empty string is truthy in JS; undefined and '' are falsy.
Truthy(o) == IsDef(o) /\ Val(o) # EmptyString

\* --------------------------------------------------------------- JSON text

ClaimOrder ==
  <<"userId", "email", "tenantId", "roles", "type", "src", "tgt", "iat", "exp", "nonce">>
ClaimKeys == {ClaimOrder[i] : i \in 1..Len(ClaimOrder)}
EmptyObject == [k \in ClaimKeys |-> Undefined]

JsonStringify(obj) ==
  LET ks == SelectSeq(ClaimOrder, LAMBDA k : IsDef(obj[k]))
  IN  [i \in 1..Len(ks) |-> [k |-> ks[i], v |-> Val(obj[ks[i]])]]

JsonParse(text) ==
  [k \in ClaimKeys |->
     IF \E i \in 1..Len(text) : text[i].k = k
     THEN Def(text[CHOOSE i \in 1..Len(text) : text[i].k = k].v)
     ELSE Undefined]

\* ------------------------------------------------------------ jsonwebtoken

\* jwt.sign(payload, secret, {expiresIn}): iat and exp are whole seconds.
JwtSign(payload, secret, expiresIn, t) ==
  LET iat == t \div MsPerSec
      claims == JsonStringify([payload EXCEPT !["iat"] = Def(iat),
                                               !["exp"] = Def(iat + expiresIn)])
  IN  [kind |-> "jwt", text |-> "", claims |-> claims, sig |-> Hmac(secret, claims)]

\* Mutant of JwtExpired: the clock second must be strictly past exp.
JwtExpired_StrictlyAfter(payload, t) ==
  IsDef(payload["exp"]) /\ (t \div MsPerSec) > Val(payload["exp"])

\* jwt.verify(token, secret): the payload, or a thrown error (ok = FALSE).
\* A token is expired from the clock second exp on.
JwtExpired(payload, t) ==
  IsDef(payload["exp"]) /\ (t \div MsPerSec) >= Val(payload["exp"])

\* Mutant of JwtVerify: the signature is not checked.
JwtVerify_NoSignatureCheck(token, secret, t) ==
  IF token.kind # "jwt"
  THEN [ok |-> FALSE, payload |-> EmptyObject, error |-> "jwt malformed"]
  ELSE IF JwtExpired(JsonParse(token.claims), t)
  THEN [ok |-> FALSE, payload |-> EmptyObject, error |-> "jwt expired"]
  ELSE [ok |-> TRUE, payload |-> JsonParse(token.claims), error |-> ""]

JwtVerify(token, secret, t) ==
  IF token.kind # "jwt"
  THEN [ok |-> FALSE, payload |-> EmptyObject, error |-> "jwt malformed"]
  ELSE IF token.sig # Hmac(secret, token.claims)
  THEN [ok |-> FALSE, payload |-> EmptyObject, error |-> "invalid signature"]
  ELSE IF JwtExpired(JsonParse(token.claims), t)
  THEN [ok |-> FALSE, payload |-> EmptyObject, error |-> "jwt expired"]
  ELSE [ok |-> TRUE, payload |-> JsonParse(token.claims), error |-> ""]

\* ------------------------------------------------------------ TokenService

Users ==
  { [id |-> "user-1", email |-> "a@example.com", tenant_id |-> Def("tenant-1"),
     roles |-> <<"user">>],
    [id |-> "user-2", email |-> "b@example.com", tenant_id |-> Undefined,
     roles |-> <<"admin", "user">>] }

\* Mutant of AccessPayload: tenantId is taken from the user's id.
AccessPayload_TenantFromId(user) ==
  [EmptyObject EXCEPT !["userId"] = Def(user.id),
                      !["email"] = Def(user.email),
                      !["tenantId"] = Def(user.id),
                      !["roles"] = Def(user.roles)]

AccessPayload(user) ==
  [EmptyObject EXCEPT !["userId"] = Def(user.id),
                      !["email"] = Def(user.email),
                      !["tenantId"] = user.tenant_id,
                      !["roles"] = Def(user.roles)]

generateAccessToken(user, t) ==
  JwtSign(AccessPayload(user), JWT_SECRET, JWT_EXPIRES_IN, t)

verifyAccessToken(token, t) ==
  LET r == JwtVerify(token, JWT_SECRET, t)
  IN  IF r.ok THEN Def(r.payload) ELSE Undefined

\* uuid's v4(): 16 random bytes, the version nibble set to 4 and the two top
\* bits of the variant nibble to 10, written as 32 lowercase hexadecimal
\* digits in groups of 8-4-4-4-12 with a hyphen between the groups. rnd gives
\* the 32 random nibbles; the string is the sequence of its characters.
HexDigits == <<"0", "1", "2", "3", "4", "5", "6", "7", "8", "9", "a", "b", "c", "d", "e", "f">>
UUID_NIBBLES == 32
uuidv4(rnd) ==
  LET nibble(i) == IF i = 13 THEN 4
                   ELSE IF i = 17 THEN 8 + (rnd[i] % 4)
                   ELSE rnd[i]
      hex == [i \in 1..UUID_NIBBLES |-> HexDigits[nibble(i) + 1]]
  IN  SubSeq(hex, 1, 8) \o <<"-">> \o SubSeq(hex, 9, 12) \o <<"-">>
        \o SubSeq(hex, 13, 16) \o <<"-">> \o SubSeq(hex, 17, 20) \o <<"-">>
        \o SubSeq(hex, 21, 32)

generateRefreshToken(rnd) == uuidv4(rnd)

\* What the random source may return: here the nibble sequences that repeat
\* one digit.
RandomNibbles == { [i \in 1..UUID_NIBBLES |-> n] : n \in {0, 10, 15} }

SpecialPayload(userId, type) ==
  [EmptyObject EXCEPT !["userId"] = Def(userId), !["type"] = Def(type)]

generatePasswordResetToken(userId, t) ==
  JwtSign(SpecialPayload(userId, "password-reset"), JWT_SECRET,
          PASSWORD_RESET_EXPIRES_IN, t)

\* Mutant of verifyPasswordResetToken: the type discriminant is not checked.
verifyPasswordResetToken_NoTypeCheck(token, t) ==
  LET r == JwtVerify(token, JWT_SECRET, t)
  IN  IF ~r.ok THEN Undefined ELSE r.payload["userId"]

verifyPasswordResetToken(token, t) ==
  LET r == JwtVerify(token, JWT_SECRET, t)
  IN  IF ~r.ok THEN Undefined
      ELSE IF r.payload["type"] # Def("password-reset") THEN Undefined
      ELSE r.payload["userId"]

generateEmailVerificationToken(userId, t) ==
  JwtSign(SpecialPayload(userId, "email-verification"), JWT_SECRET,
          EMAIL_VERIFICATION_EXPIRES_IN, t)

verifyEmailVerificationToken(token, t) ==
  LET r == JwtVerify(token, JWT_SECRET, t)
  IN  IF ~r.ok THEN Undefined
      ELSE IF r.payload["type"] # Def("email-verification") THEN Undefined
      ELSE r.payload["userId"]

\* ------------------------------------------------- authentication gates

\* What one middleware invocation did: the req.user it left, the response it
\* wrote (status 0: none) and how many times it called next.
Outcome(user, status, body, nexts) ==
  [user |-> user, status |-> status, body |-> body, nexts |-> nexts]

\* const token = authHeader && authHeader.split(' ')[1]: the second field of
\* a truthy header; a header with a single field yields undefined.
HeaderTruthy(h) == IsDef(h) /\ Val(h) # <<EmptyString>>
BearerToken(h) ==
  IF ~HeaderTruthy(h) THEN Undefined
  ELSE IF Len(Val(h)) >= 2 THEN Def(Val(h)[2])
  ELSE Undefined

\* Mutant of authenticate: a header whose scheme is not Bearer is answered 401.
authenticate_ChecksScheme(r, t) ==
  LET token == BearerToken(r.authorization)
  IN  IF ~Truthy(token) \/ Val(r.authorization)[1] # Word("Bearer")
      THEN Outcome(r.user, 401, "Access token required", 0)
      ELSE LET v == JwtVerify(Val(token), JWT_SECRET, t)
           IN  IF v.ok
               THEN Outcome(Def(v.payload), 0, "", 1)
               ELSE Outcome(r.user, 403, "Invalid or expired token", 0)

\* Mutant of authenticate: a missing token and a rejected token swap statuses.
authenticate_StatusesSwapped(r, t) ==
  LET token == BearerToken(r.authorization)
  IN  IF ~Truthy(token)
      THEN Outcome(r.user, 403, "Access token required", 0)
      ELSE LET v == JwtVerify(Val(token), JWT_SECRET, t)
           IN  IF v.ok
               THEN Outcome(Def(v.payload), 0, "", 1)
               ELSE Outcome(r.user, 401, "Invalid or expired token", 0)

authenticate(r, t) ==
  LET token == BearerToken(r.authorization)
  IN  IF ~Truthy(token)
      THEN Outcome(r.user, 401, "Access token required", 0)
      ELSE LET v == JwtVerify(Val(token), JWT_SECRET, t)
           IN  IF v.ok
               THEN Outcome(Def(v.payload), 0, "", 1)
               ELSE Outcome(r.user, 403, "Invalid or expired token", 0)

authenticateToken(r, t) ==
  LET token == BearerToken(r.authorization)
  IN  IF ~Truthy(token)
      THEN Outcome(r.user, 401, "Access token required", 0)
      ELSE LET v == JwtVerify(Val(token), JWT_SECRET, t)
           IN  IF v.ok
               THEN Outcome(Def(v.payload), 0, "", 1)
               ELSE Outcome(r.user, 403, "Invalid or expired token", 0)

\* Mutant of optionalAuth: an invalid token ends the request with 403.
optionalAuth_BlocksInvalid(r, t) ==
  LET token == BearerToken(r.authorization)
  IN  IF ~Truthy(token) THEN Outcome(r.user, 0, "", 1)
      ELSE IF JwtVerify(Val(token), JWT_SECRET, t).ok
      THEN Outcome(Def(JwtVerify(Val(token), JWT_SECRET, t).payload), 0, "", 1)
      ELSE Outcome(r.user, 403, "Invalid or expired token", 0)

optionalAuth(r, t) ==
  LET token == BearerToken(r.authorization)
  IN  IF Truthy(token) /\ JwtVerify(Val(token), JWT_SECRET, t).ok
      THEN Outcome(Def(JwtVerify(Val(token), JWT_SECRET, t).payload), 0, "", 1)
      ELSE Outcome(r.user, 0, "", 1)

\* Mutant of requireRoles: an empty list of acceptable roles lets everyone in.
requireRoles_EmptyListAllows(roles, r) ==
  IF ~IsDef(r.user)
  THEN Outcome(r.user, 401, "Authentication required", 0)
  ELSE LET userRoles == IF IsDef(Val(r.user)["roles"])
                        THEN Val(Val(r.user)["roles"]) ELSE << >>
           hasRole == Len(roles) = 0 \/ SomeIncluded(roles, userRoles)
       IN  IF ~hasRole
           THEN Outcome(r.user, 403, "Insufficient permissions", 0)
           ELSE Outcome(r.user, 0, "", 1)

requireRoles(roles, r) ==
  IF ~IsDef(r.user)
  THEN Outcome(r.user, 401, "Authentication required", 0)
  ELSE LET userRoles == IF IsDef(Val(r.user)["roles"])
                        THEN Val(Val(r.user)["roles"]) ELSE << >>
           hasRole == SomeIncluded(roles, userRoles)
       IN  IF ~hasRole
           THEN Outcome(r.user, 403, "Insufficient permissions", 0)
           ELSE Outcome(r.user, 0, "", 1)

\* ---------------------------------------------------------- service tokens

\* A permission string is kept as the sequence of its fields between ':',
\* which is what split(':') returns: 'user:read' is <<"user", "read">>.
Perm(category, action) == <<category, action>>
WILDCARD == <<"*">>

ServiceIdentity(id, name, perms) ==
  [serviceId |-> id, serviceName |-> name, permissions |-> perms]

RegistryLiteral ==
  [id \in {"auth-service", "api-gateway", "crm-service", "finance-service",
           "documents-service", "hr-service", "ai-service", "notification-service",
           "collaboration-service"} |->
     CASE id = "auth-service" ->
            ServiceIdentity(id, "Authentication Service",
                            <<Perm("user", "read"), Perm("user", "write"), Perm("session", "manage")>>)
       [] id = "api-gateway" -> ServiceIdentity(id, "API Gateway", <<WILDCARD>>)
       [] id = "crm-service" ->
            ServiceIdentity(id, "CRM Service", <<Perm("crm", "read"), Perm("crm", "write"), Perm("user", "read")>>)
       [] id = "finance-service" ->
            ServiceIdentity(id, "Finance Service",
                            <<Perm("finance", "read"), Perm("finance", "write"), Perm("user", "read")>>)
       [] id = "documents-service" ->
            ServiceIdentity(id, "Documents Service",
                            <<Perm("documents", "read"), Perm("documents", "write"), Perm("user", "read")>>)
       [] id = "hr-service" ->
            ServiceIdentity(id, "HR Service", <<Perm("hr", "read"), Perm("hr", "write"), Perm("user", "read")>>)
       [] id = "ai-service" ->
            ServiceIdentity(id, "AI Service", <<Perm("ai", "execute"), Perm("user", "read")>>)
       [] id = "notification-service" ->
            ServiceIdentity(id, "Notification Service",
                            <<Perm("notification", "send"), Perm("user", "read")>>)
       [] OTHER ->
            ServiceIdentity(id, "Collaboration Service",
                            <<Perm("collaboration", "manage"), Perm("user", "read")>>)]

\* The object literal is evaluated once, when the module loads; nothing freezes
\* it, so afterwards each entry's permissions array holds whatever has been
\* written to it since.
InitialRegistry == [id \in DOMAIN RegistryLiteral |-> RegistryLiteral[id].permissions]

KNOWN_SERVICES ==
  [id \in DOMAIN RegistryLiteral |->
     [RegistryLiteral[id] EXCEPT !.permissions = registry[id]]]

\* KNOWN_SERVICES is a plain object literal, so KNOWN_SERVICES[key] also finds
\* what Object.prototype holds: 'constructor', 'toString', ... are truthy.
ObjectPrototypeKeys ==
  {"constructor", "toString", "valueOf", "hasOwnProperty", "__proto__"}
KnownServiceTruthy(src) ==
  src \in DOMAIN KNOWN_SERVICES \/ src \in ObjectPrototypeKeys

\* getServiceSecret reads process.env at every call. It throws where
\* getServiceSecretThrows holds and returns getServiceSecret otherwise.
getServiceSecretThrows ==
  ~EnvTruthy(proc.env.SERVICE_SECRET) /\ proc.env.NODE_ENV = Def("production")
getServiceSecret ==
  IF EnvTruthy(proc.env.SERVICE_SECRET) THEN Val(proc.env.SERVICE_SECRET)
  ELSE DEV_SERVICE_SECRET

ServicePayload(source, target, ttlSeconds, nonce, t) ==
  [EmptyObject EXCEPT !["src"] = Def(source),
                      !["tgt"] = Def(target),
                      !["iat"] = Def(t),
                      !["exp"] = Def(t + ttlSeconds * MsPerSec),
                      !["nonce"] = Def(nonce)]

generateServiceToken(source, target, ttlSeconds, nonce, t) ==
  LET payloadBase64 == JsonStringify(ServicePayload(source, target, ttlSeconds, nonce, t))
  IN  [kind |-> "svc", text |-> "", claims |-> payloadBase64,
       sig |-> Hmac(getServiceSecret, payloadBase64)]

ServiceResult(valid, source, error) ==
  [valid |-> valid, sourceServiceId |-> source, error |-> error]

\* Mutant of verifyServiceToken: a token is expired from its expiry instant on.
verifyServiceToken_ExpiredAtExp(token, expectedTargetServiceId, t) ==
  IF token.kind # "svc"
  THEN ServiceResult(FALSE, Undefined, "Invalid token format")
  ELSE IF getServiceSecretThrows
  THEN ServiceResult(FALSE, Undefined, "Token verification failed")
  ELSE LET expectedSignature == Hmac(getServiceSecret, token.claims)
           payload == JsonParse(token.claims)
       IN  IF token.sig.len # expectedSignature.len
           THEN ServiceResult(FALSE, Undefined, "Token verification failed")
           ELSE IF token.sig # expectedSignature
           THEN ServiceResult(FALSE, Undefined, "Invalid signature")
           ELSE IF IsDef(payload["exp"]) /\ Val(payload["exp"]) <= t
           THEN ServiceResult(FALSE, Undefined, "Token expired")
           ELSE IF payload["tgt"] # Def(expectedTargetServiceId)
                   /\ payload["tgt"] # Def("*")
           THEN ServiceResult(FALSE, Undefined, "Token not intended for this service")
           ELSE IF ~(IsDef(payload["src"]) /\ KnownServiceTruthy(Val(payload["src"])))
           THEN ServiceResult(FALSE, Undefined, "Unknown source service")
           ELSE ServiceResult(TRUE, payload["src"], "")

\* crypto.timingSafeEqual throws on buffers of different length; the throw is
\* caught by verifyServiceToken's try block.
verifyServiceToken(token, expectedTargetServiceId, t) ==
  IF token.kind # "svc"
  THEN ServiceResult(FALSE, Undefined, "Invalid token format")
  ELSE IF getServiceSecretThrows
  THEN ServiceResult(FALSE, Undefined, "Token verification failed")
  ELSE LET expectedSignature == Hmac(getServiceSecret, token.claims)
           payload == JsonParse(token.claims)
       IN  IF token.sig.len # expectedSignature.len
           THEN ServiceResult(FALSE, Undefined, "Token verification failed")
           ELSE IF token.sig # expectedSignature
           THEN ServiceResult(FALSE, Undefined, "Invalid signature")
           ELSE IF IsDef(payload["exp"]) /\ Val(payload["exp"]) < t
           THEN ServiceResult(FALSE, Undefined, "Token expired")
           ELSE IF payload["tgt"] # Def(expectedTargetServiceId)
                   /\ payload["tgt"] # Def("*")
           THEN ServiceResult(FALSE, Undefined, "Token not intended for this service")
           ELSE IF ~(IsDef(payload["src"]) /\ KnownServiceTruthy(Val(payload["src"])))
           THEN ServiceResult(FALSE, Undefined, "Unknown source service")
           ELSE ServiceResult(TRUE, payload["src"], "")

\* -------------------------------------------------------------------- CSRF

\* CSRF values are strings over a two-letter alphabet, kept as character
\* sequences so that their lengths are visible.
RECURSIVE StringsUpTo(_)
StringsUpTo(n) ==
  IF n = 0 THEN {<< >>}
  ELSE StringsUpTo(n - 1) \cup
       {Append(s, c) : s \in {x \in StringsUpTo(n - 1) : Len(x) = n - 1}, c \in {"a", "b"}}

\* !value for an optional character string: undefined or ''.
Falsy(o) == ~IsDef(o) \/ Len(Val(o)) = 0

\* Mutant of TimingSafeEqual: buffers of different length are compared over
\* the shorter one instead of throwing.
TimingSafeEqual_ComparesPrefix(a, b) ==
  LET n == IF Len(a) < Len(b) THEN Len(a) ELSE Len(b)
  IN  [threw |-> FALSE, equal |-> \A i \in 1..n : a[i] = b[i]]

\* crypto.timingSafeEqual(Buffer.from(a), Buffer.from(b)): throws when the
\* byte lengths differ, else compares byte for byte.
TimingSafeEqual(a, b) ==
  IF Len(a) # Len(b) THEN [threw |-> TRUE, equal |-> FALSE]
  ELSE [threw |-> FALSE, equal |-> \A i \in 1..Len(a) : a[i] = b[i]]

verifyCsrfToken(r) ==
  LET cookieToken == r.csrfCookie
      headerToken == r.xCsrfToken
  IN  IF Falsy(cookieToken) \/ Falsy(headerToken) THEN FALSE
      ELSE LET c == TimingSafeEqual(Val(cookieToken), Val(headerToken))
           IN  IF c.threw THEN FALSE ELSE c.equal

SafeMethods == <<"GET", "HEAD", "OPTIONS">>

\* Mutant of csrfProtection: a request without CSRF cookie is not checked.
csrfProtection_SkipsWithoutCookie(r) ==
  IF Includes(SafeMethods, r.method) THEN Outcome(r.user, 0, "", 1)
  ELSE IF Truthy(r.xServiceToken) THEN Outcome(r.user, 0, "", 1)
  ELSE IF IsDef(r.csrfCookie) /\ ~verifyCsrfToken(r)
  THEN Outcome(r.user, 403, "CSRF token validation failed", 0)
  ELSE Outcome(r.user, 0, "", 1)

csrfProtection(r) ==
  IF Includes(SafeMethods, r.method) THEN Outcome(r.user, 0, "", 1)
  ELSE IF Truthy(r.xServiceToken) THEN Outcome(r.user, 0, "", 1)
  ELSE IF ~verifyCsrfToken(r)
  THEN Outcome(r.user, 403, "CSRF token validation failed", 0)
  ELSE Outcome(r.user, 0, "", 1)

\* ------------------------------------------------------------------- state

\* An express request: the method, the headers and cookies the gates read,
\* and req.user. open: the chain is still running (every middleware so far
\* called next and none wrote a response).
NoRequest ==
  [open |-> FALSE, method |-> "GET", path |-> << >>, body |-> Undefined,
   authorization |-> Undefined,
   accessCookie |-> Undefined, csrfCookie |-> Undefined, xCsrfToken |-> Undefined,
   xServiceToken |-> Undefined, xServiceSignature |-> Undefined,
   xServiceTimestamp |-> Undefined,
   user |-> Undefined, serviceIdentity |-> Undefined]

\* The cookies of a request or response: the value under each of the three
\* cookie names, where there is one.
NoCookies == [accessToken |-> Undefined, refreshToken |-> Undefined, csrfToken |-> Undefined]

\* The browser before any login: no cookie, no CSRF token from a body. For
\* each cookie it holds the browser keeps the attributes it was set with.
NoBrowserState == [cookies |-> NoCookies, attributes |-> NoCookies, bodyCsrfToken |-> Undefined]

\* The record of a call: its name, argument and return value; for a middleware
\* invocation the response written (status 0: none), the number of next()
\* calls and the req.user it found.
Call(op) ==
  [op |-> op, arg |-> << >>, ret |-> Undefined, status |-> 0, body |-> "", nexts |-> 0,
   userBefore |-> Undefined]

Origin(by, user) == [by |-> by, user |-> user]

\* The auth store as created: null fields are Undefined.
NoStore ==
  [user |-> Undefined, isAuthenticated |-> FALSE, isLoading |-> FALSE,
   isInitialized |-> FALSE, error |-> Undefined, csrfToken |-> Undefined,
   _refreshCleanup |-> Undefined]

\* What is known of one authenticatedFetch call: the method, the X-CSRF-Token
\* header as last set, the statuses of the first response and of the retry,
\* what refreshToken returned, the status returned to the caller, whether the
\* call rejected, and how often the request was sent and refreshToken called.
NoFetch ==
  [method |-> "GET", header |-> Undefined, first |-> Undefined, refreshed |-> Undefined,
   retry |-> Undefined, returned |-> Undefined, threw |-> FALSE,
   sends |-> 0, refreshes |-> 0]

\* The application after the page loaded in a browser that holds nothing of
\* an earlier visit: no session cookies, nothing under 'nexus_csrf_token', the
\* store as created, no interval running, no CSRF token handed out by the
\* server yet, every asynchronous function idle. pc says, per function, which
\* await it is suspended at, and sent whether the request it awaits carried
\* the session cookies. loggedOut: a logout has completed, and since then no
\* login has started or completed and no refreshToken call has started.
NoApplication ==
  [cookies |-> FALSE, storage |-> Undefined, store |-> NoStore, timers |-> {},
   intervals |-> 0, issued |-> 0,
   pc |-> [initialize |-> "idle", login |-> "idle", logout |-> "idle",
           refresh |-> "idle", interval |-> "idle", authenticatedFetch |-> "idle"],
   sent |-> [initialize |-> FALSE, login |-> FALSE, logout |-> FALSE,
             refresh |-> FALSE, interval |-> FALSE, authenticatedFetch |-> FALSE],
   fetch |-> NoFetch, loggedOut |-> FALSE]

Init ==
  /\ proc = ConfiguredProcess
  /\ registry = InitialRegistry
  /\ now = 0
  /\ mints = 0
  /\ tok = Word("invalid-token")
  /\ origin = Origin("garbage", CHOOSE u \in Users : u.id = "user-1")
  /\ req = NoRequest
  /\ last = Call("init")
  /\ jar = NoBrowserState
  /\ app = NoApplication

\* ------------------------------------------------------------------- clock

\* Expiry instant of the held token in milliseconds, where it carries one.
ExpiryMs(token) ==
  LET p == JsonParse(token.claims)
  IN  IF ~IsDef(p["exp"]) THEN 0
      ELSE IF token.kind = "jwt" THEN Val(p["exp"]) * MsPerSec
      ELSE Val(p["exp"])

\* The clock is read at the instants that matter to the held token: the
\* millisecond before its expiry instant, that instant, and the one after.
Instants(token) == {ExpiryMs(token) - 1, ExpiryMs(token), ExpiryMs(token) + 1}

Advance ==
  /\ ~req.open
  /\ \E t \in Instants(tok) : t > now /\ now' = t
  /\ last' = Call("advance")
  /\ req' = NoRequest
  /\ UNCHANGED <<mints, tok, origin, jar, proc, registry, app>>

\* ----------------------------------------------------- TokenService calls

GenerateAccessToken ==
  \E u \in Users :
    /\ tok' = generateAccessToken(u, now)
    /\ origin' = Origin("generateAccessToken", u)
    /\ last' = Call("generateAccessToken")
    /\ ~req.open
    /\ req' = NoRequest
    /\ mints < MaxMints
    /\ mints' = mints + 1
    /\ UNCHANGED <<now, jar, proc, registry, app>>

GeneratePasswordResetToken ==
  \E u \in Users :
    /\ tok' = generatePasswordResetToken(u.id, now)
    /\ origin' = Origin("generatePasswordResetToken", u)
    /\ last' = Call("generatePasswordResetToken")
    /\ ~req.open
    /\ req' = NoRequest
    /\ mints < MaxMints
    /\ mints' = mints + 1
    /\ UNCHANGED <<now, jar, proc, registry, app>>

GenerateEmailVerificationToken ==
  \E u \in Users :
    /\ tok' = generateEmailVerificationToken(u.id, now)
    /\ origin' = Origin("generateEmailVerificationToken", u)
    /\ last' = Call("generateEmailVerificationToken")
    /\ ~req.open
    /\ req' = NoRequest
    /\ mints < MaxMints
    /\ mints' = mints + 1
    /\ UNCHANGED <<now, jar, proc, registry, app>>

\* A call of generateRefreshToken; the random source does not return the
\* bytes it returned to the call before. The call before, if it was one of
\* generateRefreshToken, is kept with its result.
GenerateRefreshToken ==
  \E rnd \in RandomNibbles :
    /\ ~req.open
    /\ last.op = "generateRefreshToken" => rnd # last.arg.rnd
    /\ req' = NoRequest
    /\ last' = [Call("generateRefreshToken") EXCEPT
                  !.arg = [rnd |-> rnd,
                           previous |-> IF last.op = "generateRefreshToken"
                                        THEN last.ret ELSE Undefined],
                  !.ret = Def(generateRefreshToken(rnd))]
    /\ UNCHANGED <<now, mints, tok, origin, jar, proc, registry, app>>

VerifyAccessToken ==
  /\ ~req.open
  /\ req' = NoRequest
  /\ last' = [Call("verifyAccessToken") EXCEPT !.ret = verifyAccessToken(tok, now)]
  /\ UNCHANGED <<now, mints, tok, origin, jar, proc, registry, app>>

VerifyPasswordResetToken ==
  /\ ~req.open
  /\ req' = NoRequest
  /\ last' = [Call("verifyPasswordResetToken") EXCEPT
                !.ret = verifyPasswordResetToken(tok, now)]
  /\ UNCHANGED <<now, mints, tok, origin, jar, proc, registry, app>>

VerifyEmailVerificationToken ==
  /\ ~req.open
  /\ req' = NoRequest
  /\ last' = [Call("verifyEmailVerificationToken") EXCEPT
                !.ret = verifyEmailVerificationToken(tok, now)]
  /\ UNCHANGED <<now, mints, tok, origin, jar, proc, registry, app>>

\* ------------------------------------------------- tokens not minted here

\* jwt.sign(payload, 'wrong-secret', {expiresIn: '1h'}): any payload, another key.
ForgedPayloads ==
  {AccessPayload(u) : u \in Users}
    \cup {[AccessPayload(u) EXCEPT !["roles"] = Def(<<"admin">>)] : u \in Users}
    \cup {SpecialPayload(u.id, "password-reset") : u \in Users}

ForgeToken ==
  \E p \in ForgedPayloads, u \in Users :
    /\ p["userId"] = Def(u.id)
    /\ tok' = JwtSign(p, WRONG_SECRET, JWT_EXPIRES_IN, now)
    /\ origin' = Origin("forged", u)
    /\ last' = Call("forge")
    /\ ~req.open
    /\ req' = NoRequest
    /\ mints < MaxMints
    /\ mints' = mints + 1
    /\ UNCHANGED <<now, jar, proc, registry, app>>

\* The claims of a token minted here are rewritten (roles raised to admin, or
\* the expiry pushed out) and the old signature is kept.
TamperedClaims(token) ==
  LET p == JsonParse(token.claims)
  IN  { JsonStringify([p EXCEPT !["roles"] = Def(<<"admin">>)]),
        JsonStringify([p EXCEPT !["exp"] = Def(Val(p["exp"]) + JWT_EXPIRES_IN)]) }

TamperToken ==
  /\ origin.by \in {"generateAccessToken", "generatePasswordResetToken",
                    "generateEmailVerificationToken", "generateServiceToken"}
  /\ \E c \in TamperedClaims(tok) : tok' = [tok EXCEPT !.claims = c]
  /\ origin' = Origin("tampered", origin.user)
  /\ last' = Call("tamper")
  /\ ~req.open
  /\ req' = NoRequest
  /\ UNCHANGED <<now, mints, jar, proc, registry, app>>

\* Strings that are no token at all: 'invalid-token', 'not.a.valid.jwt.token',
\* and a two-part string whose second part is no signature.
Garbage ==
  { Word("invalid-token"), Word("not.a.valid.jwt.token"),
    [kind |-> "svc", text |-> "", claims |-> << >>,
     sig |-> [key |-> "", data |-> << >>, len |-> 1]] }

HoldGarbage ==
  \E g \in Garbage :
    /\ tok' = g
    /\ origin' = Origin("garbage", origin.user)
    /\ last' = Call("garbage")
    /\ ~req.open
    /\ req' = NoRequest
    /\ UNCHANGED <<now, mints, jar, proc, registry, app>>

\* ------------------------------------------------------ service-token calls

ServiceSources == {"auth-service", "rogue-service", "constructor"}
ServiceTargets == {"crm-service", "*"}
ExpectedTargets == {"crm-service", "finance-service"}
Nonces == {"n1"}

GenerateServiceToken ==
  \E s \in ServiceSources, g \in ServiceTargets, n \in Nonces :
    /\ IF getServiceSecretThrows
       THEN /\ last' = [Call("generateServiceToken") EXCEPT !.ret = Def(Thrown)]
            /\ UNCHANGED <<tok, origin>>
       ELSE /\ tok' = generateServiceToken(s, g, SERVICE_TOKEN_TTL, n, now)
            /\ origin' = Origin("generateServiceToken", origin.user)
            /\ last' = Call("generateServiceToken")
    /\ ~req.open
    /\ req' = NoRequest
    /\ mints < MaxMints
    /\ mints' = mints + 1
    /\ UNCHANGED <<now, jar, proc, registry, app>>

VerifyServiceToken ==
  \E e \in ExpectedTargets :
    /\ ~req.open
    /\ req' = NoRequest
    /\ last' = [Call("verifyServiceToken") EXCEPT
                  !.arg = e, !.ret = verifyServiceToken(tok, e, now)]
    /\ UNCHANGED <<now, mints, tok, origin, jar, proc, registry, app>>

\* ---------------------------------------------------------------- requests

\* The Authorization headers a client sends with the token it holds: none,
\* '', 'Bearer', 'Bearer <tok>', '<tok>' alone, 'InvalidFormat <tok>',
\* 'Bearer  <tok>' (two spaces).
AuthorizationHeaders(token) ==
  { Undefined,
    Def(<<EmptyString>>),
    Def(<<Word("Bearer")>>),
    Def(<<Word("Bearer"), token>>),
    Def(<<token>>),
    Def(<<Word("InvalidFormat"), token>>),
    Def(<<Word("Bearer"), EmptyString, token>>) }

ReceiveRequest ==
  \E h \in AuthorizationHeaders(tok) :
    /\ ~req.open
    /\ req' = [NoRequest EXCEPT !.open = TRUE, !.authorization = h]
    /\ last' = Call("request")
    /\ UNCHANGED <<now, mints, tok, origin, jar, proc, registry, app>>

\* Express runs the middleware on the open request: what it wrote to res, how
\* often it called next and the req.user it left are recorded; the chain goes
\* on only if next was called and no response written.
Invoke(op, arg, o) ==
  /\ req.open
  /\ req' = [req EXCEPT !.user = o.user,
                        !.open = (o.nexts > 0 /\ o.status = 0)]
  /\ last' = [Call(op) EXCEPT !.arg = arg, !.status = o.status, !.body = o.body,
                              !.nexts = o.nexts, !.userBefore = req.user]
  /\ UNCHANGED <<now, mints, tok, origin, jar, proc, registry, app>>

Authenticate == Invoke("authenticate", << >>, authenticate(req, now))

AuthenticateToken == Invoke("authenticateToken", << >>, authenticateToken(req, now))

OptionalAuth == Invoke("optionalAuth", << >>, optionalAuth(req, now))

\* The route handler behind the gates answers the request.
Handle ==
  /\ req.open
  /\ req' = [req EXCEPT !.open = FALSE]
  /\ last' = [Call("handler") EXCEPT !.status = 200, !.userBefore = req.user]
  /\ UNCHANGED <<now, mints, tok, origin, jar, proc, registry, app>>

RoleLists == { << >>, <<"admin">>, <<"editor", "user">> }

RequireRoles == \E roles \in RoleLists : Invoke("requireRoles", roles, requireRoles(roles, req))

\* ------------------------------------------------------------ CSRF requests

Methods == {"GET", "HEAD", "OPTIONS", "POST", "DELETE"}
CsrfValues == {Undefined} \cup {Def(s) : s \in StringsUpTo(MaxCsrfLen)}
ServiceTokenHeaders == {Undefined, Def(EmptyString), Def(Word("invalid-token"))}

\* The requests the CSRF gate is tried on: every method, cookie value, header
\* value and service-token header of the sets above.
CsrfRequests ==
  { [NoRequest EXCEPT !.open = TRUE, !.method = m, !.csrfCookie = c,
                      !.xCsrfToken = h, !.xServiceToken = x] :
      m \in Methods, c \in CsrfValues, h \in CsrfValues, x \in ServiceTokenHeaders }

InitCsrf ==
  /\ proc = ConfiguredProcess
  /\ registry = InitialRegistry
  /\ now = 0
  /\ mints = 0
  /\ tok = Word("invalid-token")
  /\ origin = Origin("garbage", CHOOSE u \in Users : u.id = "user-1")
  /\ req \in CsrfRequests
  /\ last = Call("request")
  /\ jar = NoBrowserState
  /\ app = NoApplication

VerifyCsrfToken ==
  /\ req.open
  /\ last' = [Call("verifyCsrfToken") EXCEPT !.ret = Def(verifyCsrfToken(req))]
  /\ UNCHANGED <<now, mints, tok, origin, req, jar, proc, registry, app>>

CsrfProtection == Invoke("csrfProtection", << >>, csrfProtection(req))

\* -------------------------------------------------------- cookie transport

ACCESS_TOKEN_MAX_AGE == 3600000
REFRESH_TOKEN_MAX_AGE == 604800000
CSRF_TOKEN_MAX_AGE == 86400000
REFRESH_PATH == "/auth/refresh"

\* getCookieConfig reads process.env at every call.
getCookieConfig ==
  LET e == proc.env
      isProduction == e.NODE_ENV = Def("production")
  IN  [accessTokenName |-> IF EnvTruthy(e.ACCESS_TOKEN_COOKIE_NAME)
                           THEN Val(e.ACCESS_TOKEN_COOKIE_NAME) ELSE "nexus_access_token",
       refreshTokenName |-> IF EnvTruthy(e.REFRESH_TOKEN_COOKIE_NAME)
                            THEN Val(e.REFRESH_TOKEN_COOKIE_NAME) ELSE "nexus_refresh_token",
       csrfTokenName |-> IF EnvTruthy(e.CSRF_TOKEN_COOKIE_NAME)
                         THEN Val(e.CSRF_TOKEN_COOKIE_NAME) ELSE "nexus_csrf_token",
       domain |-> e.COOKIE_DOMAIN,
       secure |-> (isProduction \/ e.COOKIE_SECURE = Def("true")),
       sameSite |-> IF isProduction THEN "strict" ELSE "lax",
       httpOnly |-> TRUE,
       path |-> "/"]

\* express CookieOptions; maxAge is undefined where none is given.
CookieOptions(httpOnly, secure, sameSite, path, domain, maxAge) ==
  [httpOnly |-> httpOnly, secure |-> secure, sameSite |-> sameSite, path |-> path,
   domain |-> domain, maxAge |-> maxAge]

getAccessTokenCookieOptions ==
  LET config == getCookieConfig
  IN  CookieOptions(TRUE, config.secure, config.sameSite, config.path, config.domain,
                    Def(ACCESS_TOKEN_MAX_AGE))

getRefreshTokenCookieOptions ==
  LET config == getCookieConfig
  IN  CookieOptions(TRUE, config.secure, config.sameSite, REFRESH_PATH, config.domain,
                    Def(REFRESH_TOKEN_MAX_AGE))

\* Mutant of getCsrfTokenCookieOptions: the CSRF cookie is HTTP-only too.
getCsrfTokenCookieOptions_HttpOnly ==
  LET config == getCookieConfig
  IN  CookieOptions(TRUE, config.secure, config.sameSite, config.path, config.domain,
                    Def(CSRF_TOKEN_MAX_AGE))

getCsrfTokenCookieOptions ==
  LET config == getCookieConfig
  IN  CookieOptions(FALSE, config.secure, config.sameSite, config.path, config.domain,
                    Def(CSRF_TOKEN_MAX_AGE))

\* A call of res.cookie or res.clearCookie on the response.
ResCookie(name, value, options) ==
  [call |-> "cookie", name |-> name, value |-> Def(value), options |-> options]
ResClearCookie(name, options) ==
  [call |-> "clearCookie", name |-> name, value |-> Undefined, options |-> options]

\* generateCsrfToken: crypto.randomBytes(32).toString('hex'), a fresh string of
\* fixed length; here every string of full length over the alphabet.
CsrfTokens == {s \in StringsUpTo(MaxCsrfLen) : Len(s) = MaxCsrfLen}

\* A refresh token a login handler got from generateRefreshToken.
RefreshTokens == {generateRefreshToken([i \in 1..UUID_NIBBLES |-> 10])}

\* setAuthCookies(res, accessToken, refreshToken, csrfToken?): the cookies
\* written to the response, in order; the CSRF cookie only for a truthy
\* csrfToken.
setAuthCookies(accessToken, refreshToken, csrfToken) ==
  LET config == getCookieConfig
  IN  << ResCookie(config.accessTokenName, accessToken, getAccessTokenCookieOptions),
         ResCookie(config.refreshTokenName, refreshToken, getRefreshTokenCookieOptions) >>
        \o (IF Falsy(csrfToken) THEN << >>
            ELSE << ResCookie(config.csrfTokenName, Val(csrfToken),
                              getCsrfTokenCookieOptions) >>)

\* Mutant of clearAuthCookies: the access cookie is left alone.
clearAuthCookies_KeepsAccessCookie ==
  LET config == getCookieConfig
      clearOptions == CookieOptions(TRUE, config.secure, config.sameSite, config.path,
                                    config.domain, Undefined)
  IN  << ResClearCookie(config.refreshTokenName, [clearOptions EXCEPT !.path = REFRESH_PATH]),
         ResClearCookie(config.csrfTokenName, [clearOptions EXCEPT !.httpOnly = FALSE]) >>

\* Mutant of clearAuthCookies: the refresh cookie is cleared at the common path.
clearAuthCookies_CommonPath ==
  LET config == getCookieConfig
      clearOptions == CookieOptions(TRUE, config.secure, config.sameSite, config.path,
                                    config.domain, Undefined)
  IN  << ResClearCookie(config.accessTokenName, clearOptions),
         ResClearCookie(config.refreshTokenName, clearOptions),
         ResClearCookie(config.csrfTokenName, [clearOptions EXCEPT !.httpOnly = FALSE]) >>

\* clearAuthCookies(res): the three clearCookie calls.
clearAuthCookies ==
  LET config == getCookieConfig
      clearOptions == CookieOptions(TRUE, config.secure, config.sameSite, config.path,
                                    config.domain, Undefined)
  IN  << ResClearCookie(config.accessTokenName, clearOptions),
         ResClearCookie(config.refreshTokenName, [clearOptions EXCEPT !.path = REFRESH_PATH]),
         ResClearCookie(config.csrfTokenName, [clearOptions EXCEPT !.httpOnly = FALSE]) >>

\* Mutant of sendAuthResponse: the body carries a CSRF token other than the
\* one placed in the cookie.
sendAuthResponse_BodyTokenDiffers(accessToken, refreshToken, user, csrfToken) ==
  [cookies |-> setAuthCookies(accessToken, refreshToken, Def(csrfToken)),
   body |-> [success |-> TRUE, user |-> user,
             csrfToken |-> CHOOSE c \in CsrfTokens : c # csrfToken,
             expiresIn |-> ACCESS_TOKEN_MAX_AGE \div MsPerSec]]

\* sendAuthResponse(res, accessToken, refreshToken, user), csrfToken being the
\* value generateCsrfToken returned: the cookies set and the JSON body.
sendAuthResponse(accessToken, refreshToken, user, csrfToken) ==
  [cookies |-> setAuthCookies(accessToken, refreshToken, Def(csrfToken)),
   body |-> [success |-> TRUE, user |-> user, csrfToken |-> csrfToken,
             expiresIn |-> ACCESS_TOKEN_MAX_AGE \div MsPerSec]]

\* Mutant of sendRefreshResponse: the body carries a CSRF token other than the
\* one placed in the cookie.
sendRefreshResponse_BodyTokenDiffers(accessToken, refreshToken, csrfToken) ==
  [cookies |-> setAuthCookies(accessToken, refreshToken, Def(csrfToken)),
   body |-> [success |-> TRUE,
             csrfToken |-> CHOOSE c \in CsrfTokens : c # csrfToken,
             expiresIn |-> ACCESS_TOKEN_MAX_AGE \div MsPerSec]]

\* Mutant of sendRefreshResponse: the new tokens are returned in the body.
sendRefreshResponse_ReturnsTokens(accessToken, refreshToken, csrfToken) ==
  [cookies |-> setAuthCookies(accessToken, refreshToken, Def(csrfToken)),
   body |-> [success |-> TRUE, csrfToken |-> csrfToken,
             expiresIn |-> ACCESS_TOKEN_MAX_AGE \div MsPerSec,
             accessToken |-> accessToken, refreshToken |-> refreshToken]]

\* sendRefreshResponse(res, accessToken, refreshToken), csrfToken being the
\* value generateCsrfToken returned.
sendRefreshResponse(accessToken, refreshToken, csrfToken) ==
  [cookies |-> setAuthCookies(accessToken, refreshToken, Def(csrfToken)),
   body |-> [success |-> TRUE, csrfToken |-> csrfToken,
             expiresIn |-> ACCESS_TOKEN_MAX_AGE \div MsPerSec]]

\* sendLogoutResponse(res).
sendLogoutResponse ==
  [cookies |-> clearAuthCookies,
   body |-> [success |-> TRUE, message |-> "Logged out successfully"]]

\* The role of a cookie name: which of the three cookies the server reads
\* under it.
CookieRole(name) ==
  IF name = getCookieConfig.accessTokenName THEN "accessToken"
  ELSE IF name = getCookieConfig.refreshTokenName THEN "refreshToken"
  ELSE "csrfToken"

\* The browser and one Set-Cookie: a cookie is stored under its name with its
\* attributes; a clearing one removes the cookie held under that name if path
\* and domain are those it was stored with, and nothing otherwise.
StoreCookie(b, c) ==
  LET role == CookieRole(c.name)
  IN  IF c.call = "cookie"
      THEN [b EXCEPT !.cookies[role] = c.value, !.attributes[role] = Def(c.options)]
      ELSE IF /\ IsDef(b.attributes[role])
              /\ Val(b.attributes[role]).path = c.options.path
              /\ Val(b.attributes[role]).domain = c.options.domain
      THEN [b EXCEPT !.cookies[role] = Undefined, !.attributes[role] = Undefined]
      ELSE b

\* The browser and the cookie calls of a response, in order.
RECURSIVE StoreCookies(_, _)
StoreCookies(b, calls) ==
  IF calls = << >> THEN b
  ELSE StoreCookies(StoreCookie(b, Head(calls)), Tail(calls))

\* getAccessTokenFromCookies: req.cookies?.[name] || null.
getAccessTokenFromCookies(r) ==
  IF Truthy(r.accessCookie) THEN r.accessCookie ELSE Undefined

\* authHeader && authHeader.startsWith('Bearer '): the first field is 'Bearer'
\* and a space follows it.
StartsWithBearer(h) ==
  IsDef(h) /\ Len(Val(h)) >= 2 /\ Val(h)[1] = Word("Bearer")

\* Mutant of cookieAuthMiddleware: the cookie replaces a bearer header.
cookieAuthMiddleware_CookieWins(r) ==
  LET accessToken == getAccessTokenFromCookies(r)
  IN  [request |-> IF IsDef(accessToken)
                   THEN [r EXCEPT !.authorization = Def(<<Word("Bearer"), Val(accessToken)>>)]
                   ELSE r,
       outcome |-> Outcome(r.user, 0, "", 1)]

\* cookieAuthMiddleware: the request it leaves and what it did.
cookieAuthMiddleware(r) ==
  LET accessToken == getAccessTokenFromCookies(r)
  IN  [request |-> IF StartsWithBearer(r.authorization) THEN r
                   ELSE IF IsDef(accessToken)
                   THEN [r EXCEPT !.authorization = Def(<<Word("Bearer"), Val(accessToken)>>)]
                   ELSE r,
       outcome |-> Outcome(r.user, 0, "", 1)]

\* The user fields a login handler returns in the body.
UserView(u) == [id |-> u.id, email |-> u.email, roles |-> u.roles]

\* A login: the handler mints an access and a refresh token and answers with
\* sendAuthResponse; the browser stores the cookies and the body's CSRF token.
SendAuthResponse ==
  \E u \in Users, c \in CsrfTokens, rt \in RefreshTokens :
    LET accessToken == generateAccessToken(u, now)
        res == sendAuthResponse(accessToken, rt, UserView(u), c)
    IN  /\ ~req.open
        /\ mints < MaxMints
        /\ mints' = mints + 1
        /\ tok' = accessToken
        /\ origin' = Origin("generateAccessToken", u)
        /\ jar' = [StoreCookies(jar, res.cookies) EXCEPT
                     !.bodyCsrfToken = Def(res.body.csrfToken)]
        /\ last' = [Call("sendAuthResponse") EXCEPT
                      !.arg = [accessToken |-> accessToken, refreshToken |-> rt],
                      !.ret = Def(res), !.status = 200]
        /\ req' = NoRequest
        /\ UNCHANGED <<now, proc, registry, app>>

\* A refresh: the handler mints a new access and refresh token for the user of
\* the session and answers with sendRefreshResponse.
SendRefreshResponse ==
  \E c \in CsrfTokens, rt \in RefreshTokens :
    LET accessToken == generateAccessToken(origin.user, now)
        res == sendRefreshResponse(accessToken, rt, c)
    IN  /\ ~req.open
        /\ tok' = accessToken
        /\ origin' = Origin("generateAccessToken", origin.user)
        /\ jar' = [StoreCookies(jar, res.cookies) EXCEPT
                     !.bodyCsrfToken = Def(res.body.csrfToken)]
        /\ last' = [Call("sendRefreshResponse") EXCEPT
                      !.arg = [accessToken |-> accessToken, refreshToken |-> rt],
                      !.ret = Def(res), !.status = 200]
        /\ req' = NoRequest
        /\ UNCHANGED <<now, mints, proc, registry, app>>

\* A logout: the handler answers with sendLogoutResponse and the browser
\* applies the clearing cookies.
SendLogoutResponse ==
  LET res == sendLogoutResponse
  IN  /\ ~req.open
      /\ jar' = StoreCookies(jar, res.cookies)
      /\ last' = [Call("sendLogoutResponse") EXCEPT !.ret = Def(res), !.status = 200]
      /\ req' = NoRequest
      /\ UNCHANGED <<now, mints, tok, origin, proc, registry, app>>

\* Direct calls of setAuthCookies, with and without CSRF token, and of
\* clearAuthCookies, on a response that is not sent to the browser.
SetAuthCookies ==
  \E c \in {Undefined, Def(<< >>)} \cup {Def(x) : x \in CsrfTokens}, rt \in RefreshTokens :
    /\ ~req.open
    /\ last' = [Call("setAuthCookies") EXCEPT
                  !.arg = [accessToken |-> tok, refreshToken |-> rt],
                  !.ret = Def([cookies |-> setAuthCookies(tok, rt, c), body |-> << >>])]
    /\ req' = NoRequest
    /\ UNCHANGED <<now, mints, tok, origin, jar, proc, registry, app>>

ClearAuthCookies ==
  /\ ~req.open
  /\ last' = [Call("clearAuthCookies") EXCEPT
                !.ret = Def([cookies |-> clearAuthCookies, body |-> << >>])]
  /\ req' = NoRequest
  /\ UNCHANGED <<now, mints, tok, origin, jar, proc, registry, app>>

\* The browser's next request: a POST with the cookies it holds, echoing the
\* CSRF token of the last body or sending none.
BrowserRequest ==
  \E x \in {jar.bodyCsrfToken, Undefined} :
    /\ ~req.open
    /\ req' = [NoRequest EXCEPT !.open = TRUE, !.method = "POST",
                                !.accessCookie = jar.cookies.accessToken,
                                !.csrfCookie = jar.cookies.csrfToken,
                                !.xCsrfToken = x]
    /\ last' = Call("request")
    /\ UNCHANGED <<now, mints, tok, origin, jar, proc, registry, app>>

\* Requests of a client that holds the browser state: the browser sends the
\* cookies it holds (an API client may send none, or an empty one), with or
\* without an Authorization header of its own, and echoes the CSRF token of
\* the body, a wrong one, or none.
SessionMethods == {"GET", "POST"}
SessionAuthorizationHeaders ==
  { Undefined,
    Def(<<EmptyString>>),
    Def(<<Word("Bearer")>>),
    Def(<<Word("Bearer"), EmptyString>>),
    Def(<<Word("Bearer"), Word("invalid-token")>>),
    Def(<<Word("Basic"), Word("invalid-token")>>) }

SessionRequest ==
  \E m \in SessionMethods, h \in SessionAuthorizationHeaders,
     a \in {jar.cookies.accessToken, Undefined, Def(EmptyString)},
     x \in {Undefined, jar.bodyCsrfToken, Def(<<"a">>)} :
    /\ ~req.open
    /\ req' = [NoRequest EXCEPT !.open = TRUE, !.method = m, !.authorization = h,
                                !.accessCookie = a,
                                !.csrfCookie = jar.cookies.csrfToken,
                                !.xCsrfToken = x]
    /\ last' = Call("request")
    /\ UNCHANGED <<now, mints, tok, origin, jar, proc, registry, app>>

\* A middleware that may rewrite the request: r is the request it leaves, the
\* request it found is recorded as the argument.
InvokeRewriting(op, r, o) ==
  /\ req.open
  /\ req' = [r EXCEPT !.user = o.user, !.open = (o.nexts > 0 /\ o.status = 0)]
  /\ last' = [Call(op) EXCEPT !.arg = req, !.status = o.status, !.body = o.body,
                              !.nexts = o.nexts, !.userBefore = req.user]
  /\ UNCHANGED <<now, mints, tok, origin, jar, proc, registry, app>>

\* The chain of a cookie-authenticated route: cookieAuthMiddleware, then
\* csrfProtection, then authenticate, then the handler.
CookieAuthMiddleware ==
  /\ last.op = "request"
  /\ InvokeRewriting("cookieAuthMiddleware", cookieAuthMiddleware(req).request,
                     cookieAuthMiddleware(req).outcome)

SessionCsrfProtection == last.op = "cookieAuthMiddleware" /\ CsrfProtection

SessionAuthenticate == last.op = "csrfProtection" /\ Authenticate

SessionHandle == last.op = "authenticate" /\ Handle

\* ------------------------------------------------------- request signing

HMAC_HEX_LEN == 64
SIGNATURE_WINDOW_MS == 300000

HmacHex(secret, data) == [key |-> secret, data |-> data, len |-> HMAC_HEX_LEN]

Abs(n) == IF n < 0 THEN 0 - n ELSE n

\* body || '': the text of an optional body.
BodyText(body) == IF IsDef(body) THEN Val(body) ELSE << >>

\* signRequest: the HMAC, in hex, of `${method}:${path}:${timestamp}:${body || ''}`.
\* Strings are sequences of pieces, the template concatenates them.
signRequest(method, path, timestamp, body) ==
  LET dataToSign == <<method, ":">> \o path \o <<":", ToString(timestamp), ":">>
                      \o BodyText(body)
  IN  HmacHex(getServiceSecret, dataToSign)

\* Mutant of verifyRequestSignature: the timestamp window is not checked.
verifyRequestSignature_NoWindow(method, path, timestamp, providedSignature, body, t) ==
  LET expectedSignature == signRequest(method, path, timestamp, body)
  IN  IF providedSignature.len # expectedSignature.len THEN Thrown
      ELSE Returned(providedSignature = expectedSignature)

\* verifyRequestSignature: crypto.timingSafeEqual is called outside any try
\* block, so its exception on buffers of different length leaves the function.
verifyRequestSignature(method, path, timestamp, providedSignature, body, t) ==
  IF Abs(t - timestamp) > SIGNATURE_WINDOW_MS THEN Returned(FALSE)
  ELSE LET expectedSignature == signRequest(method, path, timestamp, body)
       IN  IF providedSignature.len # expectedSignature.len THEN Thrown
           ELSE Returned(providedSignature = expectedSignature)

\* ----------------------------------------------------- service middleware

\* A numeric header value, or one that parseInt turns into NaN.
Num(n) == [numeric |-> TRUE, n |-> n]
NotANumber == [numeric |-> FALSE, n |-> 0]

\* parseInt(header, 10): a number, or NaN (undefined here) for an absent or
\* non-numeric header.
ParseInt(h) == IF IsDef(h) /\ Val(h).numeric THEN Def(Val(h).n) ELSE Undefined

\* Truthiness of the parsed timestamp: NaN and 0 are falsy.
NumberTruthy(o) == IsDef(o) /\ Val(o) # 0

\* Truthiness of a signature header: '' is falsy.
SignatureTruthy(o) == IsDef(o) /\ Val(o).len # 0

\* { serviceId: source, ...KNOWN_SERVICES[source] }: the registry entry's
\* fields; spreading a member of Object.prototype adds none.
AttachedIdentity(source) ==
  IF source \in DOMAIN KNOWN_SERVICES
  THEN [serviceId |-> source,
        serviceName |-> Def(KNOWN_SERVICES[source].serviceName),
        permissions |-> Def(KNOWN_SERVICES[source].permissions)]
  ELSE [serviceId |-> source, serviceName |-> Undefined, permissions |-> Undefined]

\* What one invocation of a service gate did: the req.serviceIdentity it left,
\* the response written (status 0: none) with its error and details fields,
\* the number of next() calls, and whether an exception left the middleware.
ServiceOutcome(identity, status, body, details, nexts, threw) ==
  [identity |-> identity, status |-> status, body |-> body, details |-> details,
   nexts |-> nexts, threw |-> threw]

\* Mutant of serviceAuthMiddleware: a service token that does not verify is
\* passed over and the request goes on without identity.
serviceAuthMiddleware_AdmitsUnverified(currentServiceId, r, t) ==
  IF ~Truthy(r.xServiceToken)
  THEN ServiceOutcome(r.serviceIdentity, 0, "", "", 1, FALSE)
  ELSE LET tokenResult == verifyServiceToken(Val(r.xServiceToken), currentServiceId, t)
       IN  IF ~tokenResult.valid
           THEN ServiceOutcome(r.serviceIdentity, 0, "", "", 1, FALSE)
           ELSE ServiceOutcome(Def(AttachedIdentity(Val(tokenResult.sourceServiceId))),
                               0, "", "", 1, FALSE)

\* Mutant of serviceAuthMiddleware: a request without service token is
\* answered 401.
serviceAuthMiddleware_RequiresToken(currentServiceId, r, t) ==
  IF ~Truthy(r.xServiceToken)
  THEN ServiceOutcome(r.serviceIdentity, 401, "Service authentication failed", "", 0, FALSE)
  ELSE LET tokenResult == verifyServiceToken(Val(r.xServiceToken), currentServiceId, t)
       IN  IF ~tokenResult.valid
           THEN ServiceOutcome(r.serviceIdentity, 401, "Service authentication failed",
                               tokenResult.error, 0, FALSE)
           ELSE ServiceOutcome(Def(AttachedIdentity(Val(tokenResult.sourceServiceId))),
                               0, "", "", 1, FALSE)

serviceAuthMiddleware(currentServiceId, r, t) ==
  LET serviceToken == r.xServiceToken
      serviceSignature == r.xServiceSignature
      serviceTimestamp == ParseInt(r.xServiceTimestamp)
  IN  IF ~Truthy(serviceToken)
      THEN ServiceOutcome(r.serviceIdentity, 0, "", "", 1, FALSE)
      ELSE LET tokenResult == verifyServiceToken(Val(serviceToken), currentServiceId, t)
           IN  IF ~tokenResult.valid
               THEN ServiceOutcome(r.serviceIdentity, 401, "Service authentication failed",
                                   tokenResult.error, 0, FALSE)
               ELSE LET check ==
                          IF SignatureTruthy(serviceSignature) /\ NumberTruthy(serviceTimestamp)
                          THEN verifyRequestSignature(r.method, r.path, Val(serviceTimestamp),
                                                      Val(serviceSignature), r.body, t)
                          ELSE Returned(TRUE)
                    IN  IF check.threw
                        THEN ServiceOutcome(r.serviceIdentity, 0, "", "", 0, TRUE)
                        ELSE IF ~check.value
                        THEN ServiceOutcome(r.serviceIdentity, 401,
                                            "Service request signature verification failed",
                                            "", 0, FALSE)
                        ELSE ServiceOutcome(Def(AttachedIdentity(Val(tokenResult.sourceServiceId))),
                                            0, "", "", 1, FALSE)

\* Mutant of hasServicePermission: any category wildcard grants everything.
hasServicePermission_AnyWildcard(serviceIdentity, requiredPermission) ==
  IF ~IsDef(serviceIdentity) THEN Returned(FALSE)
  ELSE IF ~IsDef(Val(serviceIdentity).permissions) THEN Thrown
  ELSE LET permissions == Val(Val(serviceIdentity).permissions)
       IN  Returned(\/ Includes(permissions, requiredPermission)
                    \/ \E i \in 1..Len(permissions) :
                         permissions[i][Len(permissions[i])] = "*")

\* hasServicePermission: serviceIdentity.permissions.includes(...) throws a
\* TypeError for an identity without a permissions array.
hasServicePermission(serviceIdentity, requiredPermission) ==
  IF ~IsDef(serviceIdentity) THEN Returned(FALSE)
  ELSE IF ~IsDef(Val(serviceIdentity).permissions) THEN Thrown
  ELSE LET permissions == Val(Val(serviceIdentity).permissions)
           category == requiredPermission[1]
       IN  Returned(\/ Includes(permissions, WILDCARD)
                    \/ Includes(permissions, requiredPermission)
                    \/ Includes(permissions, <<category, "*">>))

requireServicePermission(permission, r) ==
  IF ~IsDef(r.serviceIdentity)
  THEN ServiceOutcome(r.serviceIdentity, 401, "Service authentication required", "", 0, FALSE)
  ELSE LET has == hasServicePermission(r.serviceIdentity, permission)
       IN  IF has.threw THEN ServiceOutcome(r.serviceIdentity, 0, "", "", 0, TRUE)
           ELSE IF ~has.value
           THEN ServiceOutcome(r.serviceIdentity, 403, "Insufficient service permissions",
                               "", 0, FALSE)
           ELSE ServiceOutcome(r.serviceIdentity, 0, "", "", 1, FALSE)

\* -------------------------------------------------------- service requests

\* The service process has been up for longer than the signature window.
InitService ==
  /\ proc = ConfiguredProcess
  /\ registry = InitialRegistry
  /\ now = 2 * SIGNATURE_WINDOW_MS
  /\ mints = 0
  /\ tok = Word("invalid-token")
  /\ origin = Origin("garbage", CHOOSE u \in Users : u.id = "user-1")
  /\ req = NoRequest
  /\ last = Call("init")
  /\ jar = NoBrowserState
  /\ app = NoApplication

ServiceMethods == {"POST"}
ServicePaths == { <<"/api/records">> }
ServiceBodies == {Undefined, Def(<<"{\"a\":1}">>)}
OtherBody == Def(<<"{\"a\":2}">>)

\* Timestamps a signer may have used: at the edges of the window around the
\* clock, just outside it on both sides, and the clock itself.
SignedTimestamps(t) ==
  { t - SIGNATURE_WINDOW_MS - 1, t - SIGNATURE_WINDOW_MS, t,
    t + SIGNATURE_WINDOW_MS, t + SIGNATURE_WINDOW_MS + 1 }

\* X-Service-Timestamp: absent, not a number, '0', or one of the above.
TimestampHeaders(t) ==
  {Undefined, Def(NotANumber), Def(Num(0))} \cup {Def(Num(x)) : x \in SignedTimestamps(t)}

\* The timestamp a signature was made for: the header's, or the clock's when
\* the header carries none.
StampOf(h, t) == IF IsDef(ParseInt(h)) THEN Val(ParseInt(h)) ELSE t

\* A signature string that is no HMAC in hex: its length is not 64.
ShortSignature == [key |-> "", data |-> << >>, len |-> 1]

\* X-Service-Signature values: the signature of this very request, the
\* signature of the request with another body (right length, wrong value),
\* and a string of another length.
Signatures(method, path, timestamp, body) ==
  { signRequest(method, path, timestamp, body),
    signRequest(method, path, timestamp, OtherBody),
    ShortSignature }

SignatureHeaders(method, path, timestamp, body) ==
  {Undefined, Def(NoSig)} \cup {Def(g) : g \in Signatures(method, path, timestamp, body)}

\* The server is done with a request that was answered or dropped, and takes
\* the next one.
Done ==
  /\ ~req.open
  /\ req # NoRequest
  /\ req' = NoRequest
  /\ last' = Call("done")
  /\ UNCHANGED <<now, mints, tok, origin, jar, proc, registry, app>>

ReceiveServiceRequest ==
  \E m \in ServiceMethods, p \in ServicePaths, b \in ServiceBodies,
     x \in {Undefined, Def(EmptyString), Def(tok)},
     h \in TimestampHeaders(now) :
    \E g \in SignatureHeaders(m, p, StampOf(h, now), b) :
      /\ req = NoRequest
      /\ req' = [NoRequest EXCEPT !.open = TRUE, !.method = m, !.path = p, !.body = b,
                                  !.xServiceToken = x, !.xServiceSignature = g,
                                  !.xServiceTimestamp = h]
      /\ last' = Call("request")
      /\ UNCHANGED <<now, mints, tok, origin, jar, proc, registry, app>>

\* Express runs a service gate on the open request; an exception that leaves
\* the middleware ends the chain without next and without a response of the
\* middleware's own.
InvokeService(op, arg, o) ==
  /\ req.open
  /\ req' = [req EXCEPT !.serviceIdentity = o.identity,
                        !.open = (o.nexts > 0 /\ o.status = 0 /\ ~o.threw)]
  /\ last' = [Call(op) EXCEPT !.arg = arg, !.ret = Def(o), !.status = o.status,
                              !.body = o.body, !.nexts = o.nexts,
                              !.userBefore = req.user]
  /\ UNCHANGED <<now, mints, tok, origin, jar, proc, registry, app>>

ServiceAuthMiddleware ==
  \E currentServiceId \in ExpectedTargets :
    /\ last.op = "request"
    /\ InvokeService("serviceAuthMiddleware", currentServiceId,
                     serviceAuthMiddleware(currentServiceId, req, now))

\* Permissions asked for: of two and of other numbers of fields, a wildcard,
\* the empty string.
RequiredPermissions ==
  { Perm("user", "read"), Perm("finance", "read"), Perm("crm", "write"),
    <<"user">>, <<"user", "read", "all">>, WILDCARD, Perm("user", "*"), <<"">> }

\* Permissions the routes of a service require.
RoutePermissions == { Perm("user", "read"), Perm("finance", "read") }

RequireServicePermission ==
  \E permission \in RoutePermissions :
    /\ last.op = "serviceAuthMiddleware"
    /\ InvokeService("requireServicePermission", permission,
                     requireServicePermission(permission, req))

ServiceHandle == last.op = "requireServicePermission" /\ Handle

\* Direct calls of verifyRequestSignature with a signature string.
VerifyRequestSignature ==
  \E m \in ServiceMethods, p \in ServicePaths, b \in ServiceBodies,
     ts \in SignedTimestamps(now) :
    \E g \in Signatures(m, p, ts, b) :
      /\ last' = [Call("verifyRequestSignature") EXCEPT
                    !.arg = [method |-> m, path |-> p, timestamp |-> ts,
                             providedSignature |-> g, body |-> b],
                    !.ret = Def(verifyRequestSignature(m, p, ts, g, b, now))]
      /\ UNCHANGED <<now, mints, tok, origin, req, jar, proc, registry, app>>

\* Identities hasServicePermission is called with: none, those of the
\* registry, and identities holding a category wildcard, one permission of
\* three fields, or no permission.
TypedIdentities ==
  {Undefined}
    \cup {Def(AttachedIdentity(id)) : id \in DOMAIN KNOWN_SERVICES}
    \cup {Def([serviceId |-> "test-service", serviceName |-> Def("Test Service"),
               permissions |-> Def(perms)]) :
            perms \in { <<Perm("user", "*")>>, <<WILDCARD>>, << >>,
                        <<<<"user", "read", "all">>>>, <<<<"user">>>> }}

HasServicePermission ==
  \E i \in TypedIdentities, permission \in RequiredPermissions :
    /\ last' = [Call("hasServicePermission") EXCEPT
                  !.arg = [serviceIdentity |-> i, requiredPermission |-> permission],
                  !.ret = Def(hasServicePermission(i, permission))]
    /\ UNCHANGED <<now, mints, tok, origin, req, jar, proc, registry, app>>

\* ------------------------------------------------------ service clients

\* ServiceRequestOptions without the optional extra headers.
ServiceRequestOptions(method, path, body) == [method |-> method, path |-> path, body |-> body]

\* createServiceRequestHeaders at clock reading t: a token for the target,
\* the clock reading in decimal, and the signature of method, path, clock
\* reading and `options.body ? JSON.stringify(options.body) : ''`.
createServiceRequestHeaders(sourceServiceId, targetServiceId, options, nonce, t) ==
  LET timestamp == t
      serviceToken == generateServiceToken(sourceServiceId, targetServiceId,
                                           SERVICE_TOKEN_TTL, nonce, t)
      signature == signRequest(options.method, options.path, timestamp, options.body)
  IN  [xServiceToken |-> serviceToken,
       xServiceTimestamp |-> Num(timestamp),
       xServiceSignature |-> signature,
       xSourceService |-> sourceServiceId,
       contentType |-> "application/json"]

\* What the client may pass: each method of the type, a path with and without
\* a query string, a JSON object or no body.
OptionMethods == {"GET", "POST", "DELETE"}
QueryString == "?page=2"
OptionPaths == { <<"/api/records">>, <<"/api/records", QueryString>> }
ClientOptions ==
  { ServiceRequestOptions(m, p, b) : m \in OptionMethods, p \in OptionPaths, b \in ServiceBodies }

\* express's req.path: the URL without its query string.
Pathname(url) == SelectSeq(url, LAMBDA piece : piece # QueryString)

\* req.body of the request as the receiving service finds it. A body that was
\* sent arrives as the parsed object, whose JSON text is the text sent. For a
\* request sent without body, req.body is undefined when no body parser ran
\* and the empty object {} when express.json() did (the request fixture of
\* the test utilities has body: {} too).
EmptyObjectText == <<"{}">>
ReceivedBodies(body) ==
  IF IsDef(body) THEN {body} ELSE {Undefined, Def(EmptyObjectText)}

\* When the headers were made, seen from the receiver's clock: right now, a
\* token lifetime ago, one millisecond more than that.
SendInstants(t) ==
  { t, t - SERVICE_TOKEN_TTL * MsPerSec, t - SERVICE_TOKEN_TTL * MsPerSec - 1 }

\* The request a client built with createServiceRequestHeaders, as it arrives.
Delivered(h, options, received) ==
  [NoRequest EXCEPT !.open = TRUE, !.method = options.method,
                    !.path = Pathname(options.path), !.body = received,
                    !.xServiceToken = Def(h.xServiceToken),
                    !.xServiceSignature = Def(h.xServiceSignature),
                    !.xServiceTimestamp = Def(h.xServiceTimestamp)]

SendServiceRequest ==
  \E source \in ServiceSources, target \in ServiceTargets, options \in ClientOptions,
     n \in Nonces, sent \in SendInstants(now) :
    \E received \in ReceivedBodies(options.body) :
      /\ req = NoRequest
      /\ req' = Delivered(createServiceRequestHeaders(source, target, options, n, sent),
                          options, received)
      /\ last' = [Call("request") EXCEPT
                    !.arg = [source |-> source, target |-> target, options |-> options,
                             sent |-> sent]]
      /\ UNCHANGED <<now, mints, tok, origin, jar, proc, registry, app>>

\* ------------------------------------------------- handlers and the registry

\* serviceAuthMiddleware attaches { serviceId, ...KNOWN_SERVICES[source] }: a
\* new object whose permissions property is the registry entry's own array.
\* What a handler may do with the identity it was given, before it answers:
\*   push onto identity.permissions, which writes to the array the registry
\*   entry holds;
\*   assign identity.permissions or identity.serviceName, which writes to the
\*   new object only.
HandlerPushes ==
  /\ req.open
  /\ last.op = "requireServicePermission"
  /\ IsDef(req.serviceIdentity)
  /\ IsDef(Val(req.serviceIdentity).permissions)
  /\ LET identity == Val(req.serviceIdentity)
         permissions == Append(Val(identity.permissions), WILDCARD)
     IN  /\ ~Includes(Val(identity.permissions), WILDCARD)
         /\ req' = [req EXCEPT !.open = FALSE,
                               !.serviceIdentity =
                                  Def([identity EXCEPT !.permissions = Def(permissions)])]
         /\ registry' = IF identity.serviceId \in DOMAIN registry
                        THEN [registry EXCEPT ![identity.serviceId] = permissions]
                        ELSE registry
  /\ last' = [Call("handler") EXCEPT !.arg = "push", !.status = 200]
  /\ UNCHANGED <<now, mints, tok, origin, jar, proc, app>>

HandlerAssigns ==
  /\ req.open
  /\ last.op = "requireServicePermission"
  /\ IsDef(req.serviceIdentity)
  /\ \E identity \in
        { [Val(req.serviceIdentity) EXCEPT !.permissions = Def(<<WILDCARD>>)],
          [Val(req.serviceIdentity) EXCEPT !.serviceName = Def("renamed")] } :
       req' = [req EXCEPT !.open = FALSE, !.serviceIdentity = Def(identity)]
  /\ last' = [Call("handler") EXCEPT !.arg = "assign", !.status = 200]
  /\ UNCHANGED <<now, mints, tok, origin, jar, proc, registry, app>>

\* Direct calls of hasServicePermission between requests.
CallHasServicePermission == req = NoRequest /\ HasServicePermission

\* ----------------------------------------------------------- configuration

\* The environments a deployment may give the process: NODE_ENV production
\* or development, each secret unset, empty or set.
Environments ==
  { Environment(nodeEnv, jwtSecret, serviceSecret, Undefined, Undefined) :
      nodeEnv \in {Def("production"), Def("development")},
      jwtSecret \in {Undefined, Def(""), Def("jwt-secret")},
      serviceSecret \in {Undefined, Def(SERVICE_SECRET)} }

InitConfig ==
  /\ proc \in {Process(e, FALSE) : e \in Environments}
  /\ registry = InitialRegistry
  /\ now = 0
  /\ mints = 0
  /\ tok = Word("invalid-token")
  /\ origin = Origin("garbage", CHOOSE u \in Users : u.id = "user-1")
  /\ req = NoRequest
  /\ last = Call("init")
  /\ jar = NoBrowserState
  /\ app = NoApplication

\* The process starts: the modules are loaded and their top-level constants
\* evaluated. No module checks its configuration while loading, so the load
\* succeeds in every environment.
LoadModules ==
  /\ ~proc.loaded
  /\ proc' = Process(proc.env, TRUE)
  /\ last' = Call("load")
  /\ UNCHANGED <<now, mints, tok, origin, req, jar, registry, app>>

\* The token operations of the started process.
ServeGenerateAccessToken == proc.loaded /\ GenerateAccessToken
ServeVerifyAccessToken == proc.loaded /\ VerifyAccessToken
ServeGenerateServiceToken == proc.loaded /\ GenerateServiceToken
ServeVerifyServiceToken == proc.loaded /\ VerifyServiceToken
ServeAdvance == proc.loaded /\ Advance

\* ------------------------------------------------------- cookie settings

\* The environments the cookie helpers may run in: NODE_ENV production or
\* development, COOKIE_DOMAIN and COOKIE_SECURE set or not, the access cookie
\* under its default name or another.
CookieEnvironments ==
  { [Environment(nodeEnv, Def("jwt-secret"), Def(SERVICE_SECRET), domain, secure)
       EXCEPT !.ACCESS_TOKEN_COOKIE_NAME = name] :
      nodeEnv \in {Def("production"), Def("development")},
      domain \in {Undefined, Def(".example.com")},
      secure \in {Undefined, Def("true")},
      name \in {Undefined, Def("sid")} }

InitCookies ==
  /\ proc \in {Process(e, TRUE) : e \in CookieEnvironments}
  /\ registry = InitialRegistry
  /\ now = 0
  /\ mints = 0
  /\ tok = Word("invalid-token")
  /\ origin = Origin("garbage", CHOOSE u \in Users : u.id = "user-1")
  /\ req = NoRequest
  /\ last = Call("init")
  /\ jar = NoBrowserState
  /\ app = NoApplication

\* --------------------------------------------------------- signed requests

\* The arguments of signRequest and verifyRequestSignature. Text is kept in
\* pieces, a ':' and a run of digits being pieces of their own, so that equal
\* strings are equal sequences of pieces.
SignedRequest(method, path, timestamp, body) ==
  [method |-> method, path |-> path, timestamp |-> timestamp, body |-> body]

\* Requests at the clock's reading and a millisecond later: without body, with
\* the body '', with bodies and paths that contain ':' and digits.
SignableRequests(t) ==
  { SignedRequest("POST", <<"/a">>, t, Undefined),
    SignedRequest("POST", <<"/a">>, t, Def(<< >>)),
    SignedRequest("POST", <<"/a">>, t, Def(<<"b">>)),
    SignedRequest("POST", <<"/a">>, t + 1, Def(<<"b">>)),
    SignedRequest("POST", <<"/b">>, t, Def(<<"b">>)),
    SignedRequest("GET", <<"/a">>, t, Undefined),
    SignedRequest("POST", <<"/a">>, t, Def(<<ToString(t + 1), ":", "b">>)),
    SignedRequest("POST", <<"/a", ":", ToString(t)>>, t + 1, Def(<<"b">>)) }

\* A signature made by signRequest for one request is presented to
\* verifyRequestSignature with the arguments of another.
PresentSignature ==
  \E signed \in SignableRequests(now), presented \in SignableRequests(now) :
    LET signature == signRequest(signed.method, signed.path, signed.timestamp, signed.body)
    IN  /\ last' = [Call("signRequest, verifyRequestSignature") EXCEPT
                      !.arg = [signed |-> signed, presented |-> presented,
                               signature |-> signature],
                      !.ret = Def(verifyRequestSignature(presented.method, presented.path,
                                                         presented.timestamp, signature,
                                                         presented.body, now))]
        /\ UNCHANGED <<now, mints, tok, origin, req, jar, proc, registry, app>>

\* ------------------------------------------------ service gate before CSRF

\* app.use(serviceAuthMiddleware(id)); app.use(csrfProtection): requests of
\* browsers and of services, with or without CSRF cookie and header, with no
\* service token, an empty one or the held token, unsigned or signed.
ReceiveGatedRequest ==
  \E m \in {"GET", "POST"}, p \in ServicePaths,
     c \in {Undefined, Def(<<"a">>)}, h \in {Undefined, Def(<<"a">>), Def(<<"b">>)},
     x \in {Undefined, Def(EmptyString), Def(tok)} :
   \E g \in {Undefined, Def(signRequest(m, p, now, Undefined)), Def(ShortSignature)} :
    /\ req = NoRequest
    /\ req' = [NoRequest EXCEPT !.open = TRUE, !.method = m, !.path = p,
                                !.csrfCookie = c, !.xCsrfToken = h,
                                !.xServiceToken = x, !.xServiceSignature = g,
                                !.xServiceTimestamp = Def(Num(now))]
    /\ last' = Call("request")
    /\ UNCHANGED <<now, mints, tok, origin, jar, proc, registry, app>>

GatedCsrfProtection == last.op = "serviceAuthMiddleware" /\ CsrfProtection

GatedHandle == last.op = "csrfProtection" /\ Handle

\* ---------------------------------------------------------------- frontend

AuthFunctions ==
  {"initialize", "login", "logout", "refresh", "interval", "authenticatedFetch"}

InFlight(a) == {f \in AuthFunctions : a.pc[f] # "idle"}

\* A function may start while fewer than MaxInFlight are suspended.
MayStart(f) == app.pc[f] = "idle" /\ Cardinality(InFlight(app)) < MaxInFlight

\* f sends a request (credentials: 'include') and is suspended at the await
\* named; f goes on after its last await.
Suspend(a, f, at) == [a EXCEPT !.pc[f] = at, !.sent[f] = a.cookies]
Resume(a, f) == [a EXCEPT !.pc[f] = "idle", !.sent[f] = FALSE]

\* localStorage under CSRF_TOKEN_KEY. The tokens the server hands out are
\* non-empty strings, numbered here in the order of issue; 0 is the token of
\* an earlier visit.
getCsrfToken(a) == a.storage
setCsrfToken(a, token) == [a EXCEPT !.storage = Def(token)]
clearCsrfToken(a) == [a EXCEPT !.storage = Undefined]

\* The page loaded in a browser that holds the session cookies and the CSRF
\* token of an earlier visit; the persisted part of the store (user,
\* isAuthenticated, csrfToken) is rehydrated.
RevisitedApplication ==
  [NoApplication EXCEPT !.cookies = TRUE, !.storage = Def(0),
                        !.store = [NoStore EXCEPT !.user = Def("user-1"),
                                                  !.isAuthenticated = TRUE,
                                                  !.csrfToken = Def(0)]]

\* setInterval returns a new id; the cleanup function returned by
\* setupAutoRefresh is known by the id it clears.
setupAutoRefresh(a) ==
  [a EXCEPT !.intervals = @ + 1, !.timers = @ \cup {a.intervals + 1}]
ClearInterval(a, id) == [a EXCEPT !.timers = @ \ {id}]

\* What a fetch of an auth endpoint settles with: a response that is ok, with
\* the user and the CSRF token of its body, one that is not ok, or a rejection
\* (network error). The login endpoint answers ok to good credentials, the
\* other endpoints only to a request that carried the session cookies.
Settled(kind, user, csrfToken) == [kind |-> kind, user |-> user, csrfToken |-> csrfToken]
Settlements(a, f) ==
  {Settled("rejected", Undefined, Undefined), Settled("failed", Undefined, Undefined)}
    \cup {Settled("ok", Def("user-1"), Def(a.issued + 1)) :
            x \in {y \in {f} : a.issued < MaxIssued /\ (a.sent[y] \/ y = "login")}}

\* An ok response of login or refresh sets the session cookies and carries a
\* new CSRF token; an ok response of logout clears the cookies.
Received(a, response) ==
  IF response.kind = "ok" THEN [a EXCEPT !.issued = @ + 1, !.cookies = TRUE] ELSE a
ReceivedLogout(a, kind) == IF kind = "ok" THEN [a EXCEPT !.cookies = FALSE] ELSE a

\* refreshToken up to its await, and from the moment its fetch settled: the
\* application it leaves and the value it resolves to.
refreshTokenStarts(a, f, at) == [Suspend(a, f, at) EXCEPT !.loggedOut = FALSE]
refreshToken(a, response) ==
  IF response.kind = "ok"
  THEN [app |-> IF IsDef(response.csrfToken)
                THEN setCsrfToken(a, Val(response.csrfToken)) ELSE a,
        value |-> TRUE]
  ELSE [app |-> clearCsrfToken(a), value |-> FALSE]

\* The store's logout up to its await: the cleanup it holds is called.
logoutStarts(a) ==
  IF IsDef(a.store._refreshCleanup)
  THEN ClearInterval(a, Val(a.store._refreshCleanup))
  ELSE a

\* The store's logout from the moment the logout request settled, whichever
\* way: the finally blocks of logout in lib/auth.ts and in the store.
logoutSettles(a) ==
  [clearCsrfToken(a) EXCEPT
     !.store = [@ EXCEPT !.user = Undefined, !.isAuthenticated = FALSE,
                         !.error = Undefined, !.csrfToken = Undefined,
                         !._refreshCleanup = Undefined],
     !.loggedOut = TRUE]

\* A step of the application: the record of the call and the new application.
AppStep(op, arg, ret, a) ==
  /\ last' = [Call(op) EXCEPT !.arg = arg, !.ret = ret]
  /\ app' = a
  /\ UNCHANGED <<now, mints, tok, origin, req, jar, proc, registry>>

StoreInitialize ==
  /\ MayStart("initialize")
  /\ AppStep("initialize", << >>, Undefined,
             Suspend([app EXCEPT !.store.isLoading = TRUE], "initialize", "checkAuth"))

\* checkAuth resolves to the user of the session, or to null (also when its
\* fetch failed).
InitializeSettles ==
  \E user \in {Undefined} \cup {Def(u) : u \in {v \in {"user-1"} : app.sent.initialize}} :
    /\ app.pc.initialize = "checkAuth"
    /\ IsDef(user) => app.intervals < MaxIntervals
    /\ LET a == Resume(app, "initialize")
           b == IF IsDef(user)
                THEN LET c == setupAutoRefresh(a)
                     IN  [c EXCEPT !.store.user = user,
                                   !.store.isAuthenticated = TRUE,
                                   !.store.csrfToken = getCsrfToken(a),
                                   !.store._refreshCleanup = Def(c.intervals)]
                ELSE [clearCsrfToken(a) EXCEPT !.store.user = Undefined,
                                               !.store.isAuthenticated = FALSE,
                                               !.store.csrfToken = Undefined]
       IN  AppStep("initialize settled", user, Undefined,
                   [b EXCEPT !.store.isLoading = FALSE, !.store.isInitialized = TRUE])

StoreLogin ==
  /\ MayStart("login")
  /\ AppStep("login", << >>, Undefined,
             Suspend([app EXCEPT !.store.isLoading = TRUE, !.store.error = Undefined,
                                 !.loggedOut = FALSE],
                     "login", "authLogin"))

\* login of lib/auth.ts stores the CSRF token of an ok response and the store
\* stores it again, sets up auto-refresh and keeps the cleanup; any other
\* outcome is thrown on after the store recorded the error.
LoginSettles ==
  \E response \in Settlements(app, "login") :
    /\ app.pc.login = "authLogin"
    /\ response.kind = "ok" => app.intervals < MaxIntervals
    /\ LET a == [Resume(Received(app, response), "login") EXCEPT !.loggedOut = FALSE]
       IN  IF response.kind = "ok"
           THEN LET b == setCsrfToken(setCsrfToken(a, Val(response.csrfToken)),
                                      Val(response.csrfToken))
                    c == setupAutoRefresh(b)
                IN  AppStep("login settled", response, Def(Returned(TRUE)),
                            [c EXCEPT !.store.user = response.user,
                                      !.store.isAuthenticated = TRUE,
                                      !.store.isLoading = FALSE,
                                      !.store.csrfToken = response.csrfToken,
                                      !.store._refreshCleanup = Def(c.intervals)])
           ELSE AppStep("login settled", response, Def(Thrown),
                        [a EXCEPT !.store.error = Def("Login failed"),
                                  !.store.isLoading = FALSE,
                                  !.store.isAuthenticated = FALSE,
                                  !.store.user = Undefined])

StoreLogout ==
  /\ MayStart("logout")
  /\ AppStep("logout", app.store._refreshCleanup, Undefined,
             Suspend(logoutStarts(app), "logout", "authLogout"))

LogoutSettles ==
  \E response \in {"ok", "rejected", "failed"} :
    /\ app.pc.logout = "authLogout"
    /\ AppStep("logout settled", response, Undefined,
               Resume(logoutSettles(ReceivedLogout(app, response)), "logout"))

StoreRefresh ==
  /\ MayStart("refresh")
  /\ AppStep("refresh", << >>, Undefined,
             refreshTokenStarts(app, "refresh", "refreshToken"))

\* The store's refresh after refreshToken resolved: it copies the stored token
\* into the store, or goes on into the store's logout.
RefreshSettles ==
  \E response \in Settlements(app, "refresh") :
    /\ app.pc.refresh = "refreshToken"
    /\ LET r == refreshToken(Received(app, response), response)
       IN  IF r.value
           THEN AppStep("refresh settled", response, Def(Returned(TRUE)),
                        Resume([r.app EXCEPT !.store.csrfToken = getCsrfToken(r.app)],
                               "refresh"))
           ELSE AppStep("refresh settled", response, Undefined,
                        Suspend(logoutStarts(r.app), "refresh", "authLogout"))

RefreshLogoutSettles ==
  \E response \in {"ok", "rejected", "failed"} :
    /\ app.pc.refresh = "authLogout"
    /\ AppStep("logout settled", response, Def(Returned(FALSE)),
               Resume(logoutSettles(ReceivedLogout(app, response)), "refresh"))

\* An interval of setupAutoRefresh fires: with a stored CSRF token the
\* callback calls refreshToken, without one it does nothing.
IntervalFires ==
  \E id \in app.timers :
    /\ MayStart("interval")
    /\ AppStep("interval", id, Undefined,
               IF IsDef(getCsrfToken(app))
               THEN refreshTokenStarts(app, "interval", "refreshToken")
               ELSE app)

IntervalSettles ==
  \E response \in Settlements(app, "interval") :
    /\ app.pc.interval = "refreshToken"
    /\ LET r == refreshToken(Received(app, response), response)
       IN  AppStep("interval settled", response, Undefined, Resume(r.app, "interval"))

\* ------------------------------------------------------ authenticatedFetch

FetchMethods == {"GET", "POST"}
FetchStatuses == {200, 401, 403}
SAFE_FETCH_METHODS == {"GET", "HEAD", "OPTIONS"}

\* Mutant of authenticatedFetchNext: the request is sent again after a
\* refresh that failed.
authenticatedFetchNext_RetriesAnyway(pc, settled) ==
  IF pc = "fetch" THEN (IF settled = Def(401) THEN "refreshToken" ELSE "return")
  ELSE IF pc = "refreshToken" THEN "retry"
  ELSE "return"

\* Where authenticatedFetch goes on after the await it was suspended at
\* settled: with the response status of a fetch, or with the value of
\* refreshToken (1 for true, 0 for false).
authenticatedFetchNext(pc, settled) ==
  IF pc = "fetch" THEN (IF settled = Def(401) THEN "refreshToken" ELSE "return")
  ELSE IF pc = "refreshToken" THEN (IF settled = Def(1) THEN "retry" ELSE "return")
  ELSE "return"

AuthenticatedFetch ==
  \E method \in FetchMethods :
    /\ MayStart("authenticatedFetch")
    /\ AppStep("authenticatedFetch", method, Undefined,
               Suspend([app EXCEPT
                          !.fetch = [NoFetch EXCEPT
                                       !.method = method,
                                       !.header = IF method \notin SAFE_FETCH_METHODS
                                                  THEN getCsrfToken(app) ELSE Undefined,
                                       !.sends = 1]],
                       "authenticatedFetch", "fetch"))

\* The fetch of the request settled: with a response, or with a rejection that
\* authenticatedFetch passes on. When the call ends, what is known of it goes
\* into the record of the call.
FetchSettles ==
  \E settled \in {Undefined} \cup {Def(s) : s \in FetchStatuses} :
    /\ app.pc.authenticatedFetch \in {"fetch", "retry"}
    /\ LET pc == app.pc.authenticatedFetch
           a == IF pc = "fetch" THEN [app EXCEPT !.fetch.first = settled]
                ELSE [app EXCEPT !.fetch.retry = settled]
           next == authenticatedFetchNext(pc, settled)
       IN  IF ~IsDef(settled)
           THEN AppStep("authenticatedFetch settled", [a.fetch EXCEPT !.threw = TRUE],
                        Def(Thrown),
                        Resume([a EXCEPT !.fetch = NoFetch], "authenticatedFetch"))
           ELSE IF next = "refreshToken"
           THEN AppStep("authenticatedFetch fetched", pc, Undefined,
                        refreshTokenStarts([a EXCEPT !.fetch.refreshes = @ + 1],
                                           "authenticatedFetch", "refreshToken"))
           ELSE AppStep("authenticatedFetch settled", [a.fetch EXCEPT !.returned = settled],
                        Def(Returned(Val(settled))),
                        Resume([a EXCEPT !.fetch = NoFetch], "authenticatedFetch"))

\* refreshToken resolved inside authenticatedFetch: the request is sent again
\* with the stored CSRF token, or the first response is returned.
FetchRefreshSettles ==
  \E response \in Settlements(app, "authenticatedFetch") :
    /\ app.pc.authenticatedFetch = "refreshToken"
    /\ LET r == refreshToken(Received(app, response), response)
           a == [r.app EXCEPT !.fetch.refreshed = Def(IF r.value THEN 1 ELSE 0)]
           next == authenticatedFetchNext("refreshToken", a.fetch.refreshed)
       IN  IF next = "retry"
           THEN AppStep("authenticatedFetch refreshed", response, Undefined,
                        Suspend([a EXCEPT !.fetch.sends = @ + 1,
                                          !.fetch.header =
                                             IF IsDef(getCsrfToken(a))
                                                /\ a.fetch.method \notin SAFE_FETCH_METHODS
                                             THEN getCsrfToken(a) ELSE @],
                                "authenticatedFetch", "retry"))
           ELSE AppStep("authenticatedFetch settled",
                        [a.fetch EXCEPT !.returned = a.fetch.first],
                        Def(Returned(Val(a.fetch.first))),
                        Resume([a EXCEPT !.fetch = NoFetch], "authenticatedFetch"))

\* authFetch of useAuthenticatedFetch sends the request with the CSRF token of
\* the store.
UseAuthenticatedFetch ==
  \E method \in FetchMethods :
    /\ AppStep("authFetch", method,
               IF method \notin SAFE_FETCH_METHODS THEN app.store.csrfToken ELSE Undefined,
               app)

\* The page loads, in a browser with or without the cookies and the CSRF
\* token of an earlier visit.
InitStore ==
  /\ proc = ConfiguredProcess
  /\ registry = InitialRegistry
  /\ now = 0
  /\ mints = 0
  /\ tok = Word("invalid-token")
  /\ origin = Origin("garbage", CHOOSE u \in Users : u.id = "user-1")
  /\ req = NoRequest
  /\ last = Call("init")
  /\ jar = NoBrowserState
  /\ app \in {NoApplication, RevisitedApplication}

\* ---------------------------------------------------------- specifications

Next ==
  \/ Advance
  \/ GenerateAccessToken
  \/ GenerateRefreshToken
  \/ GeneratePasswordResetToken
  \/ GenerateEmailVerificationToken
  \/ VerifyAccessToken
  \/ VerifyPasswordResetToken
  \/ VerifyEmailVerificationToken
  \/ ForgeToken
  \/ TamperToken
  \/ HoldGarbage
  \/ GenerateServiceToken
  \/ VerifyServiceToken
  \/ ReceiveRequest
  \/ Authenticate
  \/ AuthenticateToken
  \/ OptionalAuth
  \/ RequireRoles
  \/ Handle

Spec == Init /\ [][Next]_vars

NextCsrf ==
  \/ VerifyCsrfToken
  \/ CsrfProtection

SpecCsrf == InitCsrf /\ [][NextCsrf]_vars

NextSession ==
  \/ Advance
  \/ SendAuthResponse
  \/ SendLogoutResponse
  \/ SessionRequest
  \/ CookieAuthMiddleware
  \/ SessionCsrfProtection
  \/ SessionAuthenticate
  \/ SessionHandle

SpecSession == Init /\ [][NextSession]_vars

NextService ==
  \/ Advance
  \/ GenerateServiceToken
  \/ TamperToken
  \/ HoldGarbage
  \/ VerifyServiceToken
  \/ ReceiveServiceRequest
  \/ ServiceAuthMiddleware
  \/ RequireServicePermission
  \/ ServiceHandle
  \/ Done

SpecService == InitService /\ [][NextService]_vars

\* Direct calls of the pure operations of the service layer, at clock
\* readings one millisecond apart.
Tick ==
  /\ now < 2 * SIGNATURE_WINDOW_MS + MaxTicks
  /\ now' = now + 1
  /\ last' = Call("advance")
  /\ UNCHANGED <<mints, tok, origin, req, jar, proc, registry, app>>

NextServiceCalls ==
  \/ Tick
  \/ VerifyRequestSignature
  \/ HasServicePermission

SpecServiceCalls == InitService /\ [][NextServiceCalls]_vars

\* Requests of service clients through the gates of the receiving service.
NextClients ==
  \/ SendServiceRequest
  \/ ServiceAuthMiddleware
  \/ RequireServicePermission
  \/ ServiceHandle
  \/ Done

SpecClients == InitService /\ [][NextClients]_vars

\* Every operation of the service layer, with handlers that write to the
\* identity they are given.
NextRegistry ==
  \/ GenerateServiceToken
  \/ VerifyServiceToken
  \/ CallHasServicePermission
  \/ SendServiceRequest
  \/ ServiceAuthMiddleware
  \/ RequireServicePermission
  \/ HandlerPushes
  \/ HandlerAssigns
  \/ ServiceHandle
  \/ Done

SpecRegistry == InitService /\ [][NextRegistry]_vars

\* A process from its start, in each environment.
NextConfig ==
  \/ LoadModules
  \/ ServeGenerateAccessToken
  \/ ServeVerifyAccessToken
  \/ ServeGenerateServiceToken
  \/ ServeVerifyServiceToken
  \/ ServeAdvance

SpecConfig == InitConfig /\ [][NextConfig]_vars

\* The cookie helpers in each environment, and the browser's requests after
\* their responses.
NextCookies ==
  \/ SendAuthResponse
  \/ SendRefreshResponse
  \/ SendLogoutResponse
  \/ SetAuthCookies
  \/ ClearAuthCookies
  \/ BrowserRequest
  \/ CookieAuthMiddleware
  \/ SessionCsrfProtection
  \/ SessionAuthenticate
  \/ SessionHandle

SpecCookies == InitCookies /\ [][NextCookies]_vars

\* The frontend application: the actions of the auth store, the intervals of
\* auto-refresh and the two fetch helpers, interleaved at their awaits.
NextStore ==
  \/ StoreInitialize
  \/ InitializeSettles
  \/ StoreLogin
  \/ LoginSettles
  \/ StoreLogout
  \/ LogoutSettles
  \/ StoreRefresh
  \/ RefreshSettles
  \/ RefreshLogoutSettles
  \/ IntervalFires
  \/ IntervalSettles
  \/ AuthenticatedFetch
  \/ FetchSettles
  \/ FetchRefreshSettles
  \/ UseAuthenticatedFetch

SpecStore == InitStore /\ [][NextStore]_vars

\* authenticatedFetch beside logins and logouts; every fetch it awaits settles.
NextFetch ==
  \/ StoreLogin
  \/ LoginSettles
  \/ StoreLogout
  \/ LogoutSettles
  \/ AuthenticatedFetch
  \/ FetchSettles
  \/ FetchRefreshSettles

SpecFetch ==
  /\ InitStore
  /\ [][NextFetch]_vars
  /\ WF_vars(FetchSettles)
  /\ WF_vars(FetchRefreshSettles)

\* Requests through serviceAuthMiddleware and then csrfProtection.
NextGated ==
  \/ Advance
  \/ GenerateServiceToken
  \/ TamperToken
  \/ HoldGarbage
  \/ ReceiveGatedRequest
  \/ ServiceAuthMiddleware
  \/ GatedCsrfProtection
  \/ GatedHandle
  \/ Done

SpecGated == InitService /\ [][NextGated]_vars

\* Signatures made for one request and presented with another.
NextSigning ==
  \/ Tick
  \/ PresentSignature

SpecSigning == InitService /\ [][NextSigning]_vars

\* ------------------------------------------------------------------ claims

\* Where the held token came from.
MintedJwt ==
  origin.by \in {"generateAccessToken", "generatePasswordResetToken",
                 "generateEmailVerificationToken"}
SpecialToken ==
  origin.by \in {"generatePasswordResetToken", "generateEmailVerificationToken"}

\* The request carries the held token as its bearer credential.
PresentsHeldToken == req.authorization = Def(<<Word("Bearer"), tok>>)

\* C1: for every user and every clock time before the token's expiry,
\* verifyAccessToken(generateAccessToken(user)) returns a payload whose userId,
\* email, tenantId and roles are the user's id, email, tenant_id and roles.
C1_VerifyIssueRoundTrip ==
  (last.op = "verifyAccessToken" /\ origin.by = "generateAccessToken"
     /\ now < ExpiryMs(tok))
    => /\ IsDef(last.ret)
       /\ Val(last.ret)["userId"] = Def(origin.user.id)
       /\ Val(last.ret)["email"] = Def(origin.user.email)
       /\ Val(last.ret)["tenantId"] = origin.user.tenant_id
       /\ Val(last.ret)["roles"] = Def(origin.user.roles)

\* C1 witness: a token of a user without tenant is verified in the last
\* millisecond before its expiry and the payload comes back.
C1_Witness ==
  /\ last.op = "verifyAccessToken"
  /\ origin.by = "generateAccessToken"
  /\ origin.user.tenant_id = Undefined
  /\ now = ExpiryMs(tok) - 1
  /\ IsDef(last.ret)

\* C2: a correctly signed token (a user token checked by verifyAccessToken or
\* authenticate, a service token checked by verifyServiceToken) fails
\* verification at every clock time past its exp, and at no time before its
\* exp does it fail because of expiry.
C2_ExpiryBoundary ==
  /\ (last.op = "verifyAccessToken" /\ MintedJwt)
       => /\ now > ExpiryMs(tok) => ~IsDef(last.ret)
          /\ now < ExpiryMs(tok) => IsDef(last.ret)
  /\ (last.op = "authenticate" /\ MintedJwt /\ PresentsHeldToken)
       => /\ now > ExpiryMs(tok) => (last.status = 403 /\ last.nexts = 0)
          /\ now < ExpiryMs(tok) => (last.status = 0 /\ last.nexts = 1)
  /\ (last.op = "verifyServiceToken" /\ origin.by = "generateServiceToken")
       => /\ now > ExpiryMs(tok) => ~last.ret.valid
          /\ now < ExpiryMs(tok) => last.ret.error # "Token expired"

\* C2 witness: a service token is verified one millisecond past its exp and
\* is rejected as expired.
C2_Witness ==
  /\ last.op = "verifyServiceToken"
  /\ origin.by = "generateServiceToken"
  /\ now = ExpiryMs(tok) + 1
  /\ ~last.ret.valid
  /\ last.ret.error = "Token expired"

\* C3: a token signed with a secret other than the configured one fails
\* verification whatever its payload: verifyAccessToken returns null, and
\* authenticate answers 403 without calling next or attaching an identity.
C3_ForgedTokenRejected ==
  origin.by = "forged"
    => /\ last.op = "verifyAccessToken" => last.ret = Undefined
       /\ (last.op = "authenticate" /\ PresentsHeldToken)
            => /\ last.status = 403
               /\ last.nexts = 0
               /\ req.user = Undefined

\* C3 witness: authenticate has rejected a bearer token that carries the
\* claims of a real user with the admin role, signed with another secret.
C3_Witness ==
  /\ origin.by = "forged"
  /\ last.op = "authenticate"
  /\ PresentsHeldToken
  /\ JsonParse(tok.claims)["roles"] = Def(<<"admin">>)
  /\ now < ExpiryMs(tok)
  /\ last.status = 403

\* C4: a well-signed, unexpired special-purpose token is accepted only by the
\* verifier of its own type: verifyPasswordResetToken returns the userId only
\* for a 'password-reset' token, verifyEmailVerificationToken only for an
\* 'email-verification' token, and each returns null for the other type.
C4_DiscriminantIsolation ==
  (MintedJwt /\ now < ExpiryMs(tok))
    => /\ last.op = "verifyPasswordResetToken"
            => last.ret = IF origin.by = "generatePasswordResetToken"
                          THEN Def(origin.user.id) ELSE Undefined
       /\ last.op = "verifyEmailVerificationToken"
            => last.ret = IF origin.by = "generateEmailVerificationToken"
                          THEN Def(origin.user.id) ELSE Undefined

\* C4 witness: an unexpired email-verification token was given to
\* verifyPasswordResetToken, which returned null.
C4_Witness ==
  /\ last.op = "verifyPasswordResetToken"
  /\ origin.by = "generateEmailVerificationToken"
  /\ now < ExpiryMs(tok)
  /\ last.ret = Undefined

\* C5: no token produced by generatePasswordResetToken or
\* generateEmailVerificationToken is ever accepted as an access token by
\* verifyAccessToken or by the authenticate middleware. (The code signs all
\* three token classes with JWT_SECRET and verifyAccessToken checks no type,
\* so this statement is violated.)
C5_NoCrossUse ==
  SpecialToken
    => /\ last.op = "verifyAccessToken" => last.ret = Undefined
       /\ (last.op = "authenticate" /\ PresentsHeldToken) => last.nexts = 0

\* What the Authorization header of the request carries, read off the header
\* string itself: nothing after a first space, or the held token as the field
\* after the first space.
CarriesNoToken ==
  req.authorization \in
    { Undefined, Def(<<EmptyString>>), Def(<<Word("Bearer")>>), Def(<<tok>>),
      Def(<<Word("Bearer"), EmptyString, tok>>) }
CarriesHeldToken ==
  req.authorization \in
    { Def(<<Word("Bearer"), tok>>), Def(<<Word("InvalidFormat"), tok>>) }

\* The held token was signed here under JWT_SECRET and has not expired.
HeldTokenValid == MintedJwt /\ now < ExpiryMs(tok)

\* C6: the mandatory middleware (authenticate / authenticateToken): with no
\* token it answers 401 and neither calls next nor sets req.user; with a token
\* that fails verification (malformed, bad signature, expired) it answers 403
\* and neither calls next nor sets req.user; with a valid token it sets
\* req.user to the decoded payload and calls next exactly once without writing
\* a response.
C6_MandatoryGate ==
  last.op \in {"authenticate", "authenticateToken"}
    => /\ CarriesNoToken \/ CarriesHeldToken
       /\ CarriesNoToken
            => (last.status = 401 /\ last.nexts = 0 /\ req.user = last.userBefore)
       /\ (CarriesHeldToken /\ ~HeldTokenValid)
            => (last.status = 403 /\ last.nexts = 0 /\ req.user = last.userBefore)
       /\ (CarriesHeldToken /\ HeldTokenValid)
            => (last.status = 0 /\ last.nexts = 1
                  /\ req.user = Def(JsonParse(tok.claims)))

\* C6 witness: authenticateToken has rejected with 403 a bearer token whose
\* claims were rewritten after signing, and attached nothing.
C6_Witness ==
  /\ last.op = "authenticateToken"
  /\ origin.by = "tampered"
  /\ PresentsHeldToken
  /\ now < ExpiryMs(tok)
  /\ last.status = 403
  /\ last.nexts = 0
  /\ req.user = Undefined

\* C7: optionalAuth never blocks: it calls next exactly once and writes no
\* response for every request; afterwards req.user holds a payload only if the
\* presented token passed verification (a missing or invalid token leaves the
\* request as it was, unauthenticated).
C7_OptionalNeverBlocks ==
  last.op = "optionalAuth"
    => /\ last.nexts = 1
       /\ last.status = 0
       /\ req.open
       /\ (CarriesHeldToken /\ HeldTokenValid)
            => req.user = Def(JsonParse(tok.claims))
       /\ ~(CarriesHeldToken /\ HeldTokenValid) => req.user = last.userBefore
       /\ (last.userBefore = Undefined /\ IsDef(req.user))
            => (CarriesHeldToken /\ HeldTokenValid)

\* C7 witness: optionalAuth met an expired bearer token, called next and left
\* the request unauthenticated.
C7_Witness ==
  /\ last.op = "optionalAuth"
  /\ origin.by = "generateAccessToken"
  /\ PresentsHeldToken
  /\ now >= ExpiryMs(tok)
  /\ last.nexts = 1
  /\ req.user = Undefined

\* The roles as sets.
RoleSet(roles) == {roles[i] : i \in 1..Len(roles)}
AttachedRoles ==
  IF IsDef(req.user) /\ IsDef(Val(req.user)["roles"])
  THEN RoleSet(Val(Val(req.user)["roles"])) ELSE {}

\* C8: requireRoles(R) calls next if and only if an identity is attached and
\* its role set intersects R; it answers 401 when no identity is attached and
\* 403 when the identity's roles (absent roles count as none) share no element
\* with R, R empty included.
C8_RoleGate ==
  last.op = "requireRoles"
    => /\ req.user = last.userBefore
       /\ last.nexts \in {0, 1}
       /\ last.nexts = 1 <=> (IsDef(req.user) /\ RoleSet(last.arg) \cap AttachedRoles # {})
       /\ last.nexts = 1 => last.status = 0
       /\ ~IsDef(req.user) => last.status = 401
       /\ (IsDef(req.user) /\ RoleSet(last.arg) \cap AttachedRoles = {})
            => last.status = 403

\* C8 witness: an identity with roles admin, user passed requireRoles('editor',
\* 'user').
C8_Witness ==
  /\ last.op = "requireRoles"
  /\ last.arg = <<"editor", "user">>
  /\ AttachedRoles = {"admin", "user"}
  /\ last.nexts = 1

\* A CSRF value is present when it is a non-empty string: the code tests
\* !cookieToken and !headerToken, so '' counts as absent.
Present(o) == IsDef(o) /\ Val(o) # << >>
CsrfMatch ==
  /\ Present(req.csrfCookie)
  /\ Present(req.xCsrfToken)
  /\ Val(req.csrfCookie) = Val(req.xCsrfToken)

\* C9: verifyCsrfToken returns true if and only if the CSRF cookie value and
\* the X-CSRF-Token header value are both present and equal; it returns false
\* when either is absent or when they differ, differing lengths included.
C9_CsrfDoubleSubmit ==
  last.op = "verifyCsrfToken"
    => /\ last.ret \in {Def(TRUE), Def(FALSE)}
       /\ last.ret = Def(TRUE) <=> CsrfMatch

\* C9 witness: the header value is a proper prefix of the cookie value and the
\* check returned false.
C9_Witness ==
  /\ last.op = "verifyCsrfToken"
  /\ req.csrfCookie = Def(<<"a", "b">>)
  /\ req.xCsrfToken = Def(<<"a">>)
  /\ last.ret = Def(FALSE)

\* C10: csrfProtection calls next without a CSRF check for GET, HEAD and
\* OPTIONS requests and for requests bearing an x-service-token header; every
\* other request reaches next only if verifyCsrfToken passes, and otherwise
\* gets 403 with next not called.
C10_CsrfGate ==
  last.op = "csrfProtection"
    => LET exempt == \/ req.method \in {"GET", "HEAD", "OPTIONS"}
                     \/ Truthy(req.xServiceToken)
       IN  /\ exempt => (last.nexts = 1 /\ last.status = 0)
           /\ (~exempt /\ CsrfMatch) => (last.nexts = 1 /\ last.status = 0)
           /\ (~exempt /\ ~CsrfMatch) => (last.nexts = 0 /\ last.status = 403)

\* C10 witness: a POST with an x-service-token header and no CSRF cookie or
\* header was let through.
C10_Witness ==
  /\ last.op = "csrfProtection"
  /\ req.method = "POST"
  /\ Truthy(req.xServiceToken)
  /\ req.csrfCookie = Undefined
  /\ req.xCsrfToken = Undefined
  /\ last.nexts = 1

\* The browser is logged in: it holds the access token of the last login
\* response, and that token has not expired.
LoggedIn ==
  /\ jar.cookies.accessToken = Def(tok)
  /\ origin.by = "generateAccessToken"
  /\ IsDef(jar.cookies.csrfToken)
  /\ now < ExpiryMs(tok)

\* The request in the chain carries the issued cookies and came without an
\* Authorization header of its own (the header it has is the bridged cookie).
CarriesIssuedCookies ==
  /\ req.accessCookie = jar.cookies.accessToken
  /\ req.csrfCookie = jar.cookies.csrfToken
  /\ req.authorization = Def(<<Word("Bearer"), tok>>)

\* C11: end to end, after a login response from sendAuthResponse and while the
\* issued token is unexpired: a GET carrying the issued cookies and no CSRF
\* header passes csrfProtection and authentication; a POST carrying the cookies
\* and no X-CSRF-Token header is rejected with 403; the same POST with
\* X-CSRF-Token equal to the issued CSRF token is admitted.
C11_CookieSessionEndToEnd ==
  (LoggedIn /\ CarriesIssuedCookies)
    => /\ (last.op = "csrfProtection" /\ req.method = "GET"
             /\ req.xCsrfToken = Undefined)
            => (last.nexts = 1 /\ last.status = 0 /\ req.open)
       /\ (last.op = "authenticate" /\ req.method = "GET"
             /\ req.xCsrfToken = Undefined)
            => (last.nexts = 1 /\ last.status = 0 /\ req.open
                  /\ req.user = Def(JsonParse(tok.claims)))
       /\ (last.op = "csrfProtection" /\ req.method = "POST"
             /\ req.xCsrfToken = Undefined)
            => (last.status = 403 /\ last.nexts = 0 /\ ~req.open)
       /\ (last.op \in {"csrfProtection", "authenticate"} /\ req.method = "POST"
             /\ req.xCsrfToken = jar.bodyCsrfToken)
            => (last.nexts = 1 /\ last.status = 0 /\ req.open)

\* C11 witness: the handler has answered a POST that carried the issued cookies
\* and echoed the issued CSRF token.
C11_Witness ==
  /\ LoggedIn
  /\ CarriesIssuedCookies
  /\ last.op = "handler"
  /\ req.method = "POST"
  /\ req.xCsrfToken = jar.bodyCsrfToken
  /\ req.user = Def(JsonParse(tok.claims))

\* C12: cookieAuthMiddleware always calls next exactly once and never writes a
\* response; a request whose Authorization header starts with 'Bearer ' keeps
\* its header and the cookie is ignored; otherwise a non-empty access-token
\* cookie makes Authorization 'Bearer ' followed by the cookie value; otherwise
\* the headers are unchanged. Nothing else of the request changes.
C12_CookieBridge ==
  last.op = "cookieAuthMiddleware"
    => LET before == last.arg
           bearer == /\ IsDef(before.authorization)
                     /\ Len(Val(before.authorization)) >= 2
                     /\ Val(before.authorization)[1] = Word("Bearer")
           cookie == IsDef(before.accessCookie) /\ Val(before.accessCookie) # EmptyString
       IN  /\ last.nexts = 1
           /\ last.status = 0
           /\ req.open
           /\ [req EXCEPT !.authorization = before.authorization] = before
           /\ bearer => req.authorization = before.authorization
           /\ (~bearer /\ cookie)
                => req.authorization = Def(<<Word("Bearer"), Val(before.accessCookie)>>)
           /\ (~bearer /\ ~cookie) => req.authorization = before.authorization

\* C12 witness: a request with an explicit bearer header and a valid access
\* cookie went through with the header it came with.
C12_Witness ==
  /\ last.op = "cookieAuthMiddleware"
  /\ LoggedIn
  /\ last.arg.accessCookie = Def(tok)
  /\ last.arg.authorization = Def(<<Word("Bearer"), Word("invalid-token")>>)
  /\ req.authorization = last.arg.authorization

\* C13: verifyServiceToken(token, expectedTarget) returns valid only when the
\* token has exactly two dot-delimited parts, its signature is the HMAC of the
\* payload part under the service secret, exp is not in the past, the payload
\* target is expectedTarget or '*', and the payload source is an id of the
\* static service registry; on success the returned sourceServiceId is the
\* token's source.
C13_ServiceTokenValidOnlyIf ==
  (last.op = "verifyServiceToken" /\ last.ret.valid)
    => LET payload == JsonParse(tok.claims)
       IN  /\ tok.kind = "svc"
           /\ tok.sig = Hmac(SERVICE_SECRET, tok.claims)
           /\ IsDef(payload["exp"]) /\ Val(payload["exp"]) >= now
           /\ payload["tgt"] \in {Def(last.arg), Def("*")}
           /\ IsDef(payload["src"])
           /\ last.ret.sourceServiceId = payload["src"]
           /\ Val(payload["src"]) \in DOMAIN KNOWN_SERVICES

\* What a ':'-separated permission list grants, as sets.
PermissionSet(identity) ==
  LET perms == Val(Val(identity).permissions)
  IN  {perms[i] : i \in 1..Len(perms)}

\* C14: hasServicePermission(identity, p) is true exactly when the identity's
\* permissions contain '*', or p itself, or c + ':*' with c the part of p before
\* its first ':'; it is false for an undefined identity.
C14_PermissionMatch ==
  last.op = "hasServicePermission"
    => LET identity == last.arg.serviceIdentity
           p == last.arg.requiredPermission
           result == Val(last.ret)
       IN  /\ ~result.threw
           /\ result.value
                <=> /\ IsDef(identity)
                    /\ \/ <<"*">> \in PermissionSet(identity)
                       \/ p \in PermissionSet(identity)
                       \/ <<Head(p), "*">> \in PermissionSet(identity)

\* C14 witness: an identity holding ['user:*'] was refused 'finance:read'.
C14_Witness ==
  /\ last.op = "hasServicePermission"
  /\ IsDef(last.arg.serviceIdentity)
  /\ Val(last.arg.serviceIdentity).permissions = Def(<< <<"user", "*">> >>)
  /\ last.arg.requiredPermission = <<"finance", "read">>
  /\ Val(last.ret) = Returned(FALSE)

\* C15: serviceAuthMiddleware never blocks user-token flows: for a request
\* without an x-service-token header it calls next exactly once, writes no
\* response and attaches no serviceIdentity, whatever the other headers are.
C15_NonServicePassThrough ==
  (last.op = "serviceAuthMiddleware" /\ req.xServiceToken = Undefined)
    => /\ last.nexts = 1
       /\ last.status = 0
       /\ ~Val(last.ret).threw
       /\ req.serviceIdentity = Undefined
       /\ req.open

\* C15 witness: a request without service token, with a timestamp inside the
\* window and a signature string of the wrong length, went through.
C15_Witness ==
  /\ last.op = "serviceAuthMiddleware"
  /\ req.xServiceToken = Undefined
  /\ req.xServiceSignature = Def(ShortSignature)
  /\ req.xServiceTimestamp = Def(Num(now))
  /\ last.nexts = 1
  /\ req.serviceIdentity = Undefined

\* C16: when serviceAuthMiddleware(currentServiceId) handles a request with an
\* x-service-token header, req.serviceIdentity is set and next is called only
\* if verifyServiceToken(token, currentServiceId) is valid, and the attached
\* identity's serviceId, serviceName and permissions are those of the registry
\* entry for the token's source; for an invalid token the middleware writes an
\* error response, does not call next and attaches no identity.
C16_ServiceIdentityFromRegistry ==
  (last.op = "serviceAuthMiddleware" /\ Truthy(req.xServiceToken))
    => LET result == verifyServiceToken(Val(req.xServiceToken), last.arg, now)
           source == Val(result.sourceServiceId)
       IN  /\ (last.nexts > 0 \/ IsDef(req.serviceIdentity))
                => /\ result.valid
                   /\ last.nexts = 1
                   /\ IsDef(req.serviceIdentity)
                   /\ source \in DOMAIN KNOWN_SERVICES
                   /\ Val(req.serviceIdentity).serviceId = KNOWN_SERVICES[source].serviceId
                   /\ Val(req.serviceIdentity).serviceName
                        = Def(KNOWN_SERVICES[source].serviceName)
                   /\ Val(req.serviceIdentity).permissions
                        = Def(KNOWN_SERVICES[source].permissions)
           /\ ~result.valid
                => (last.status # 0 /\ last.nexts = 0 /\ req.serviceIdentity = Undefined)

\* C17: every verify operation is total and never throws: each returns a
\* result for every input, a provided signature whose length differs from the
\* expected one included, so serviceAuthMiddleware lets no exception escape for
\* any combination of request headers.
C17_VerifyNeverThrows ==
  /\ last.op = "verifyServiceToken" => last.ret.valid \in BOOLEAN
  /\ last.op = "verifyRequestSignature" => ~Val(last.ret).threw
  /\ last.op = "serviceAuthMiddleware" => ~Val(last.ret).threw

\* C18: a missing credential is answered 401 and a credential that is present
\* but rejected, or an insufficient permission, is answered 403; in particular
\* a request whose x-service-token or request signature fails verification is
\* answered 403.
C18_StatusDiscipline ==
  /\ (last.op = "serviceAuthMiddleware" /\ last.status # 0)
       => (Truthy(req.xServiceToken) /\ last.status = 403)
  /\ (last.op = "requireServicePermission" /\ last.status # 0)
       => last.status = IF IsDef(req.serviceIdentity) THEN 403 ELSE 401

\* C19: the response to a rejected credential does not depend on why it was
\* rejected: a rejected service token gets from serviceAuthMiddleware the same
\* status and body as any other rejected token, here one of bad format,
\* presented in the same request to the same gate.
C19_UniformRejection ==
  (last.op = "serviceAuthMiddleware" /\ Truthy(req.xServiceToken)
     /\ ~verifyServiceToken(Val(req.xServiceToken), last.arg, now).valid)
    => LET other == serviceAuthMiddleware(
                      last.arg,
                      [req EXCEPT !.xServiceToken = Def(Word("invalid-token")),
                                  !.open = TRUE],
                      now)
       IN  /\ last.status = other.status
           /\ last.body = other.body
           /\ Val(last.ret).details = other.details

\* C20: verifyRequestSignature(method, path, timestamp, sig, body) returns true
\* if and only if the timestamp is within 5 minutes of the clock in either
\* direction and sig equals signRequest(method, path, timestamp, body).
C20_SignatureWindow ==
  last.op = "verifyRequestSignature"
    => LET a == last.arg
           result == Val(last.ret)
           distance == IF now >= a.timestamp THEN now - a.timestamp
                       ELSE a.timestamp - now
       IN  (~result.threw /\ result.value)
             <=> /\ distance <= 5 * 60 * MsPerSec
                 /\ a.providedSignature = signRequest(a.method, a.path, a.timestamp, a.body)

\* C20 witness: the signature of the request itself, stamped one millisecond
\* more than five minutes ago, was rejected.
C20_Witness ==
  /\ last.op = "verifyRequestSignature"
  /\ last.arg.timestamp = now - 5 * 60 * MsPerSec - 1
  /\ last.arg.providedSignature
       = signRequest(last.arg.method, last.arg.path, last.arg.timestamp, last.arg.body)
  /\ Val(last.ret) = Returned(FALSE)

\* C21: whenever serviceAuthMiddleware admits a request that carries a service
\* token and a non-empty X-Service-Signature header, that signature was verified: it
\* is the signature of the request's method, path, timestamp and body, stamped
\* within the window; this whatever X-Service-Timestamp holds.
C21_SignatureVerifiedWhenPresent ==
  ( /\ last.op = "serviceAuthMiddleware"
    /\ last.nexts = 1
    /\ Truthy(req.xServiceToken)
    /\ SignatureTruthy(req.xServiceSignature) )
    => /\ IsDef(ParseInt(req.xServiceTimestamp))
       /\ verifyRequestSignature(req.method, req.path, Val(ParseInt(req.xServiceTimestamp)),
                                 Val(req.xServiceSignature), req.body, now)
            = Returned(TRUE)

\* The open or answered request is what a client made at some instant with
\* createServiceRequestHeaders(source, target, options) and sent with the
\* method, path and body of options.
SentWith(source, target, options, sent) ==
  \E n \in Nonces, received \in ReceivedBodies(options.body) :
    [req EXCEPT !.open = TRUE, !.serviceIdentity = Undefined]
      = Delivered(createServiceRequestHeaders(source, target, options, n, sent),
                  options, received)

\* C22: a request made with createServiceRequestHeaders(source, target,
\* options) by a source of the registry, sent with the method, path and body
\* of options and arriving within the token's lifetime, is admitted by
\* serviceAuthMiddleware(target) with the source's identity attached, for
\* every method and with or without a body.
C22_ClientRoundTrip ==
  last.op = "serviceAuthMiddleware"
    => \A source \in DOMAIN KNOWN_SERVICES, options \in ClientOptions,
          sent \in SendInstants(now) :
         ( /\ SentWith(source, last.arg, options, sent)
           /\ now <= sent + SERVICE_TOKEN_TTL * MsPerSec )
           => /\ last.nexts = 1
              /\ last.status = 0
              /\ req.serviceIdentity = Def(AttachedIdentity(source))

\* The process runs in production with this secret unset (or empty).
ProductionWithout(secret) ==
  proc.env.NODE_ENV = Def("production") /\ ~EnvTruthy(secret)

\* C23: in production with a required signing secret unset, the service does
\* not start, no token is signed or accepted under a built-in default, and no
\* call fails for the missing secret after the start; this for JWT_SECRET and
\* for SERVICE_SECRET.
C23_NoDefaultSecretInProduction ==
  /\ ProductionWithout(proc.env.JWT_SECRET)
       => /\ ~proc.loaded
          /\ ~(last.op = "generateAccessToken" /\ tok.sig.key = DEFAULT_JWT_SECRET)
          /\ ~(last.op = "verifyAccessToken" /\ IsDef(last.ret)
                 /\ tok.sig.key = DEFAULT_JWT_SECRET)
  /\ ProductionWithout(proc.env.SERVICE_SECRET)
       => /\ ~proc.loaded
          /\ ~(last.op = "generateServiceToken" /\ last.ret = Def(Thrown))

\* C30: generateRefreshToken returns a string of at least 32 characters, all
\* of them lowercase hexadecimal digits [a-f0-9], and a call returns a value
\* other than the call before it did.
C30_RefreshTokenShape ==
  last.op = "generateRefreshToken"
    => LET token == Val(last.ret)
       IN  /\ Len(token) >= 32
           /\ \A i \in 1..Len(token) : Includes(HexDigits, token[i])
           /\ last.arg.previous # last.ret

\* The cookie calls of the response the last helper call wrote.
CookieCalls == IF IsDef(last.ret) THEN Val(last.ret).cookies ELSE << >>
CookieHelpers ==
  {"setAuthCookies", "clearAuthCookies", "sendAuthResponse", "sendRefreshResponse",
   "sendLogoutResponse"}

\* C24: after any sequence of setAuthCookies, sendAuthResponse,
\* sendRefreshResponse and clearAuthCookies, every set and every clear of the
\* access and of the refresh cookie has httpOnly true and every set and
\* clear of the CSRF cookie has httpOnly false; the refresh cookie's path is
\* always '/auth/refresh' and that of the other two '/'.
C24_CookieFlags ==
  last.op \in CookieHelpers
    => \A i \in 1..Len(CookieCalls) :
         LET c == CookieCalls[i]
             role == CookieRole(c.name)
         IN  /\ c.options.httpOnly = (role # "csrfToken")
             /\ c.options.path = IF role = "refreshToken" THEN "/auth/refresh" ELSE "/"

\* C24 witness: a logout response cleared the three cookies a login had set.
C24_Witness ==
  /\ last.op = "sendLogoutResponse"
  /\ Len(CookieCalls) = 3
  /\ IsDef(jar.bodyCsrfToken)
  /\ mints = 1

\* Two cookie calls agree on name, path, domain, httpOnly, secure and sameSite.
SameCookie(c, d) ==
  /\ c.name = d.name
  /\ c.options.path = d.options.path
  /\ c.options.domain = d.options.domain
  /\ c.options.httpOnly = d.options.httpOnly
  /\ c.options.secure = d.options.secure
  /\ c.options.sameSite = d.options.sameSite

\* C25: in one environment, clearAuthCookies clears each cookie with the
\* name, path, domain, httpOnly, secure and sameSite that setAuthCookies sets
\* it with, so that the browser drops every cookie it holds.
C25_ClearMatchesSet ==
  last.op \in {"clearAuthCookies", "sendLogoutResponse"}
    => /\ \A c \in CsrfTokens, rt \in RefreshTokens :
            LET set == setAuthCookies(tok, rt, Def(c))
            IN  /\ Len(CookieCalls) = Len(set)
                /\ \A i \in 1..Len(set) :
                     /\ CookieCalls[i].call = "clearCookie"
                     /\ SameCookie(CookieCalls[i], set[i])
       /\ last.op = "sendLogoutResponse" => jar.cookies = NoCookies

\* C25 witness: a logout after a login, in production with a cookie domain and
\* the access cookie under a name of its own.
C25_Witness ==
  /\ last.op = "sendLogoutResponse"
  /\ mints = 1
  /\ proc.env.NODE_ENV = Def("production")
  /\ IsDef(proc.env.COOKIE_DOMAIN)
  /\ IsDef(proc.env.ACCESS_TOKEN_COOKIE_NAME)
  /\ jar.cookies = NoCookies

\* The open request is the browser's, echoing the CSRF token of the last body
\* next to the CSRF cookie it holds.
EchoesBody ==
  /\ IsDef(req.csrfCookie)
  /\ req.csrfCookie = jar.cookies.csrfToken
  /\ req.xCsrfToken = jar.bodyCsrfToken

\* C26: every sendAuthResponse and sendRefreshResponse sets all three cookies
\* with a newly generated CSRF token in the third and returns the same CSRF
\* value in the body, so that the browser's next request, echoing the body's
\* value, passes verifyCsrfToken.
C26_CsrfIssuedAndEchoed ==
  /\ last.op \in {"sendAuthResponse", "sendRefreshResponse"}
       => LET res == Val(last.ret)
          IN  /\ Len(res.cookies) = 3
              /\ \A i \in 1..3 : res.cookies[i].call = "cookie"
              /\ <<CookieRole(res.cookies[1].name), CookieRole(res.cookies[2].name),
                   CookieRole(res.cookies[3].name)>>
                   = <<"accessToken", "refreshToken", "csrfToken">>
              /\ res.body.csrfToken \in CsrfTokens
              /\ res.cookies[3].value = Def(res.body.csrfToken)
              /\ jar.cookies.csrfToken = Def(res.body.csrfToken)
              /\ jar.bodyCsrfToken = Def(res.body.csrfToken)
  /\ (last.op = "csrfProtection" /\ EchoesBody)
       => /\ verifyCsrfToken(req)
          /\ last.nexts = 1
          /\ last.status = 0

\* C26 witness: the browser's POST echoing the body's token passed the CSRF
\* gate.
C26_Witness ==
  /\ last.op = "csrfProtection"
  /\ EchoesBody
  /\ req.method = "POST"
  /\ last.nexts = 1

\* C27: the body written by sendAuthResponse, sendRefreshResponse and
\* sendLogoutResponse has no field other than success, user, csrfToken,
\* expiresIn and message; its csrfToken is not the refresh token and its user
\* is the profile the handler passed, so neither token value is in it.
C27_BodiesCarryNoTokens ==
  last.op \in {"sendAuthResponse", "sendRefreshResponse", "sendLogoutResponse"}
    => LET body == Val(last.ret).body
       IN  /\ DOMAIN body \subseteq {"success", "user", "csrfToken", "expiresIn", "message"}
           /\ "csrfToken" \in DOMAIN body => body.csrfToken # last.arg.refreshToken
           /\ "user" \in DOMAIN body => DOMAIN body.user = {"id", "email", "roles"}

\* C27 witness: a refresh response, whose cookies carry the two new tokens.
C27_Witness ==
  /\ last.op = "sendRefreshResponse"
  /\ CookieCalls[1].value = Def(last.arg.accessToken)
  /\ CookieCalls[2].value = Def(last.arg.refreshToken)
  /\ tok = last.arg.accessToken

\* The browser has been logged in and holds no cookie any more.
LoggedOut == IsDef(jar.bodyCsrfToken) /\ jar.cookies = NoCookies

\* C28: a logout response clears all three cookies; the browser's next
\* request, without cookies and without Authorization header, passes
\* cookieAuthMiddleware with no bearer header made for it and is answered 401
\* by authenticate.
C28_LoggedOutIsUnauthenticated ==
  /\ last.op = "sendLogoutResponse" => jar.cookies = NoCookies
  /\ ( /\ last.op = "cookieAuthMiddleware"
       /\ LoggedOut
       /\ last.arg.accessCookie = Undefined
       /\ last.arg.authorization = Undefined )
       => /\ req.authorization = Undefined
          /\ last.nexts = 1
          /\ last.status = 0
  /\ ( /\ last.op = "authenticate"
       /\ LoggedOut
       /\ req.accessCookie = Undefined
       /\ req.authorization = Undefined )
       => /\ last.status = 401
          /\ last.nexts = 0
          /\ ~IsDef(req.user)

\* C28 witness: after a login and a logout, the browser's request without
\* cookies and Authorization header was answered 401 by authenticate.
C28_Witness ==
  /\ last.op = "authenticate"
  /\ LoggedOut
  /\ mints = 1
  /\ req.accessCookie = Undefined
  /\ req.authorization = Undefined
  /\ last.status = 401

\* C29: the service registry is immutable at runtime: whatever sequence of
\* generateServiceToken, verifyServiceToken, serviceAuthMiddleware,
\* hasServicePermission and requireServicePermission calls has run and
\* whatever handlers did to the req.serviceIdentity they were given, the
\* registry has the ids and the permissions it was defined with.
C29_RegistryImmutable ==
  /\ DOMAIN KNOWN_SERVICES = DOMAIN RegistryLiteral
  /\ \A id \in DOMAIN RegistryLiteral :
       /\ KNOWN_SERVICES[id].serviceId = RegistryLiteral[id].serviceId
       /\ KNOWN_SERVICES[id].permissions = RegistryLiteral[id].permissions

\* C31: authenticate takes the second space-separated field of the
\* Authorization header as the token and does not look at the scheme: a header
\* of one field (the raw token alone) is answered 401 and never reaches next;
\* a header whose scheme is not Bearer is admitted if its second field is a
\* valid token and answered 403, not 401, if that field is a non-empty value
\* that is no valid token.
C31_SchemeNotChecked ==
  (last.op = "authenticate" /\ HeaderTruthy(req.authorization))
    => LET fields == Val(req.authorization)
       IN  /\ Len(fields) = 1 => (last.nexts = 0 /\ last.status = 401)
           /\ (Len(fields) = 2 /\ fields[1] # Word("Bearer") /\ fields[2] # EmptyString)
                => IF JwtVerify(fields[2], JWT_SECRET, now).ok
                   THEN last.nexts = 1 /\ last.status = 0
                   ELSE last.nexts = 0 /\ last.status = 403

\* C31 witness: 'InvalidFormat <value>' with a value that is no valid token was
\* answered 403.
C31_Witness ==
  /\ last.op = "authenticate"
  /\ req.authorization = Def(<<Word("InvalidFormat"), tok>>)
  /\ tok # EmptyString
  /\ ~JwtVerify(tok, JWT_SECRET, now).ok
  /\ last.status = 403

\* The held token was issued by generateServiceToken in the name of a
\* registered service, for the service e or for every service.
ValidServiceTokenFor(e) ==
  /\ origin.by = "generateServiceToken"
  /\ tok.kind = "svc"
  /\ LET payload == JsonParse(tok.claims)
     IN  /\ payload["tgt"] \in {Def(e), Def("*")}
         /\ Val(payload["src"]) \in DOMAIN KNOWN_SERVICES

\* C32: service-token verification keeps no nonce state. Every presentation
\* of a valid service token to verifyServiceToken or serviceAuthMiddleware of
\* its target, the first as well as any later one, is accepted while the clock
\* has not passed the token's exp, and rejected as expired once it has. (The
\* middleware may still turn the request down for its signature headers; a
\* request without signature header is admitted.)
C32_ReplayAcceptedUntilExpiry ==
  /\ (last.op = "verifyServiceToken" /\ ValidServiceTokenFor(last.arg))
       => IF now <= ExpiryMs(tok)
          THEN last.ret.valid /\ last.ret.sourceServiceId = JsonParse(tok.claims)["src"]
          ELSE ~last.ret.valid /\ last.ret.error = "Token expired"
  /\ (last.op = "serviceAuthMiddleware" /\ req.xServiceToken = Def(tok)
        /\ ValidServiceTokenFor(last.arg))
       => IF now <= ExpiryMs(tok)
          THEN /\ last.body # "Service authentication failed"
               /\ ~IsDef(req.xServiceSignature) => (last.nexts = 1 /\ last.status = 0)
          ELSE /\ last.nexts = 0 /\ last.status = 401
               /\ last.body = "Service authentication failed"
               /\ Val(last.ret).details = "Token expired"

\* C32 witness: at the token's expiry instant, a minute after it was issued,
\* the middleware of the target admitted a request that presented it.
C32_Witness ==
  /\ last.op = "serviceAuthMiddleware"
  /\ req.xServiceToken = Def(tok)
  /\ ValidServiceTokenFor(last.arg)
  /\ now = ExpiryMs(tok)
  /\ last.nexts = 1

\* What an authenticatedFetch call that has ended did: f is what is known of it.
FetchDiscipline(f) ==
  /\ f.sends \in {1, 2}
  /\ f.refreshes <= 1
  /\ f.refreshes = 1 <=> f.first = Def(401)
  /\ f.sends = 2 <=> f.refreshed = Def(1)
  /\ (IsDef(f.first) /\ f.first # Def(401)) => f.returned = f.first
  /\ f.refreshed = Def(0) => (f.returned = Def(401) /\ ~f.threw)
  /\ (f.sends = 2 /\ ~f.threw) => (IsDef(f.retry) /\ f.returned = f.retry)

C34_LogoutClearsLocalState ==
  last.op = "logout settled"
    => /\ app.timers = {}
       /\ app.store.user = Undefined
       /\ ~app.store.isAuthenticated
       /\ app.store.csrfToken = Undefined
       /\ app.store._refreshCleanup = Undefined
       /\ getCsrfToken(app) = Undefined

\* No function of the application is suspended at an await.
Quiescent == InFlight(app) = {}

\* C35: after any sequence of initialize, login, refresh and logout at most
\* one auto-refresh interval is running, and it is the one whose cleanup the
\* store holds in _refreshCleanup.
C35_SingleInterval ==
  Quiescent
    => /\ Cardinality(app.timers) <= 1
       /\ \A id \in app.timers : app.store._refreshCleanup = Def(id)

\* C36: whenever no auth action is in flight the store's csrfToken equals the
\* CSRF token in local storage, also after the auto-refresh interval rotated
\* the token, so that authFetch of useAuthenticatedFetch sends the current
\* CSRF token with every unsafe request.
C36_StoreMirrorsStorage ==
  Quiescent
    => /\ app.store.csrfToken = getCsrfToken(app)
       /\ (last.op = "authFetch" /\ last.arg \notin SAFE_FETCH_METHODS)
            => last.ret = getCsrfToken(app)

\* C37: once logout has completed, no CSRF token is stored locally until the
\* next login: a refresh that began before or during the logout (no refresh
\* has begun since) stores none after the logout cleared it.
C37_NoTokenAfterLogout ==
  app.loggedOut => getCsrfToken(app) = Undefined

\* The request's service token verifies at this instant for a service that
\* may be the receiving one.
ServiceTokenVerifies ==
  /\ Truthy(req.xServiceToken)
  /\ \E e \in ExpectedTargets : verifyServiceToken(Val(req.xServiceToken), e, now).valid

\* C38: with serviceAuthMiddleware before csrfProtection, every request of an
\* unsafe method that reaches the handler has a CSRF header equal to its CSRF
\* cookie or a verified service identity attached; a request whose
\* x-service-token does not verify never reaches the handler, with or without
\* CSRF match.
C38_ServiceGateBeforeCsrf ==
  (last.op = "handler" /\ ~Includes(SafeMethods, req.method))
    => /\ CsrfMatch \/ (IsDef(req.serviceIdentity) /\ ServiceTokenVerifies)
       /\ Truthy(req.xServiceToken) => (IsDef(req.serviceIdentity) /\ ServiceTokenVerifies)

\* C38 witness: a POST with a CSRF cookie and a header that differs from it
\* reached the handler on the strength of a verified service token.
C38_Witness ==
  /\ last.op = "handler"
  /\ req.method = "POST"
  /\ IsDef(req.csrfCookie)
  /\ ~CsrfMatch
  /\ IsDef(req.serviceIdentity)
  /\ ServiceTokenVerifies

\* The gate middlewares.
Gates ==
  {"authenticateToken", "authenticate", "optionalAuth", "requireRoles", "csrfProtection",
   "cookieAuthMiddleware", "serviceAuthMiddleware", "requireServicePermission"}

\* C39: each invocation of a gate middleware ends in exactly one outcome:
\* next called exactly once and no response written, or one response written
\* and next not called; never both, never neither.
C39_ExactlyOneOutcome ==
  last.op \in Gates
    => \/ last.nexts = 1 /\ last.status = 0
       \/ last.nexts = 0 /\ last.status # 0

\* Two requests differ in the method, the path, the timestamp or the text of
\* the body (no body and the body '' are the same text).
RequestsDiffer(a, b) ==
  \/ a.method # b.method
  \/ a.path # b.path
  \/ a.timestamp # b.timestamp
  \/ BodyText(a.body) # BodyText(b.body)

\* C40: a request signature binds exactly one request: for two tuples (method,
\* path, timestamp, body) that differ in a component, what signRequest signs
\* differs, and verifyRequestSignature does not accept the signature of the
\* one for the other.
C40_SignatureBindsOneRequest ==
  (last.op = "signRequest, verifyRequestSignature"
     /\ RequestsDiffer(last.arg.signed, last.arg.presented))
    => LET p == last.arg.presented
       IN  /\ last.arg.signature.data # signRequest(p.method, p.path, p.timestamp, p.body).data
           /\ ~(~Val(last.ret).threw /\ Val(last.ret).value)

====
